---------------------------- MODULE Spec2Model ----------------------------
(***************************************************************************)
(* A model of the nes-rs emulator core: the PPU timing state machine       *)
(* (src/src/ppu/ppu.rs), the system bus (src/src/cpu/bus.rs) and the CPU   *)
(* run loop (src/src/cpu/cpu.rs).  Each object is a record of its fields;  *)
(* each method is an operator from the object (and its arguments) to the   *)
(* object after the call (and its result); each action applies one call.   *)
(***************************************************************************)
EXTENDS Integers, Naturals, Sequences, FiniteSets, TLC

VARIABLES
    cpu,    \* the Cpu object; cpu.bus is its Bus and cpu.bus.ppu the Bus's Ppu
    run,    \* where the program is: "poll", "fetch", "halted", "panicked"
    build,  \* "debug": integer overflow panics; "release": it wraps
    obs     \* what the last call was, what it returned, and running counts

vars == <<cpu, run, build, obs>>

---------------------------------------------------------------------------
(* Bytes, words and bit operations.                                        *)

Byte == 0..255

Pow2(n) == 2 ^ n

Bit(v, i) == (v \div Pow2(i)) % 2

\* Bitwise and of two naturals, bit by bit from the lowest.
RECURSIVE BitAnd(_, _)
BitAnd(a, b) ==
    IF a = 0 \/ b = 0 THEN 0
    ELSE (a % 2) * (b % 2) + 2 * BitAnd(a \div 2, b \div 2)

BitOr(a, b) == a + b - BitAnd(a, b)

BitXor(a, b) == a + b - 2 * BitAnd(a, b)

BitClear(a, m) == a - BitAnd(a, m)

U8(n) == n % 256

U16(n) == n % 65536

\* Option<u8>: None is the empty sequence, Some(v) is <<v>>.
None == << >>

Some(v) == <<v>>

\* The value of a function with a one-element domain: Let([x \in {e} |-> body])
\* is body with x naming the value of e, which is computed once.
Let(f) == f[CHOOSE k \in DOMAIN f : TRUE]

---------------------------------------------------------------------------
(* PPU register objects.  Their source files (ppu/control.rs,              *)
(* ppu/status.rs, ...) are not among the sources; the bit positions are    *)
(* those of the hardware registers the specification describes.            *)

\* StatusRegister bits.
VBLANK_STARTED == 128

SPRITE_ZERO_HIT == 64

\* ControlRegister bits.
GENERATE_NMI == 128

VRAM_ADD_INCREMENT == 4

StatusSetVblank(status, on) ==
    IF on THEN BitOr(status, VBLANK_STARTED) ELSE BitClear(status, VBLANK_STARTED)

StatusSetSpriteZeroHit(status, on) ==
    IF on THEN BitOr(status, SPRITE_ZERO_HIT) ELSE BitClear(status, SPRITE_ZERO_HIT)

StatusResetVblank(status) == BitClear(status, VBLANK_STARTED)

StatusIsVblank(status) == BitAnd(status, VBLANK_STARTED) # 0

CtrlGenerateVblankNmi(ctrl) == BitAnd(ctrl, GENERATE_NMI) # 0

CtrlVramAddrIncrement(ctrl) == IF BitAnd(ctrl, VRAM_ADD_INCREMENT) # 0 THEN 32 ELSE 1

---------------------------------------------------------------------------
(* Ppu (src/src/ppu/ppu.rs).                                               *)

DotsPerLine == 341

LinesPerFrame == 262

VblankLine == 241

CyclesPerFrame == DotsPerLine * LinesPerFrame

\* Memories are kept sparse: a function from the indices holding a nonzero
\* byte to that byte; every other index holds 0.
MemGet(mem, i) == IF i \in DOMAIN mem THEN mem[i] ELSE 0

MemSet(mem, i, v) ==
    IF v = 0
    THEN [j \in (DOMAIN mem) \ {i} |-> mem[j]]
    ELSE [j \in (DOMAIN mem) \cup {i} |-> IF j = i THEN v ELSE mem[j]]

EmptyMem == [j \in {} |-> 0]

Mirrorings == {"VERTICAL", "HORIZONTAL", "FOUR_SCREEN"}

new_ppu(char_data, mirroring) ==
    [ char_data         |-> char_data,
      mirroring         |-> mirroring,
      ctrl              |-> 0,
      mask              |-> 0,
      status            |-> 0,
      oam_addr          |-> 0,
      scroll            |-> [scroll_x |-> 0, scroll_y |-> 0],
      addr              |-> [hi |-> 0, lo |-> 0],
      latch             |-> TRUE,
      vram              |-> EmptyMem,
      oam_data          |-> EmptyMem,
      palette_table     |-> EmptyMem,
      internal_data_buf |-> 0,
      cycles            |-> 0,
      scanline          |-> 0,
      nmi_interrupt     |-> None,
      panic             |-> "" ]

\* Ppu::tick, the mutated forms used to test the claims' formulas.
Ppu_tick_NoWrapClear(p, cycles) ==
    LET sum == p.cycles + cycles IN
    IF sum >= DotsPerLine
    THEN LET p1 == [p EXCEPT !.cycles = sum - DotsPerLine, !.scanline = p.scanline + 1]
             p2 == IF p1.scanline = VblankLine
                   THEN [p1 EXCEPT
                           !.status = StatusSetSpriteZeroHit(StatusSetVblank(@, TRUE), FALSE),
                           !.nmi_interrupt =
                               IF CtrlGenerateVblankNmi(p1.ctrl) THEN Some(1) ELSE @]
                   ELSE p1
         IN IF p2.scanline >= LinesPerFrame
            THEN [ppu |-> [p2 EXCEPT !.scanline = 0,
                                     !.status = StatusSetSpriteZeroHit(@, FALSE)],
                  ret |-> TRUE]
            ELSE [ppu |-> p2, ret |-> FALSE]
    ELSE [ppu |-> [p EXCEPT !.cycles = sum], ret |-> FALSE]

Ppu_tick_LateFrame(p, cycles) ==
    LET sum == p.cycles + cycles IN
    IF sum >= DotsPerLine
    THEN LET p1 == [p EXCEPT !.cycles = sum - DotsPerLine, !.scanline = p.scanline + 1]
             p2 == IF p1.scanline = VblankLine
                   THEN [p1 EXCEPT
                           !.status = StatusSetSpriteZeroHit(StatusSetVblank(@, TRUE), FALSE),
                           !.nmi_interrupt =
                               IF CtrlGenerateVblankNmi(p1.ctrl) THEN Some(1) ELSE @]
                   ELSE p1
         IN IF p2.scanline > LinesPerFrame
            THEN [ppu |-> [p2 EXCEPT !.scanline = 0,
                                     !.nmi_interrupt = None,
                                     !.status = StatusResetVblank(
                                                   StatusSetSpriteZeroHit(@, FALSE))],
                  ret |-> TRUE]
            ELSE [ppu |-> p2, ret |-> FALSE]
    ELSE [ppu |-> [p EXCEPT !.cycles = sum], ret |-> FALSE]

Ppu_tick_NmiAlways(p, cycles) ==
    LET sum == p.cycles + cycles IN
    IF sum >= DotsPerLine
    THEN LET p1 == [p EXCEPT !.cycles = sum - DotsPerLine, !.scanline = p.scanline + 1]
             p2 == IF p1.scanline = VblankLine
                   THEN [p1 EXCEPT
                           !.status = StatusSetSpriteZeroHit(StatusSetVblank(@, TRUE), FALSE),
                           !.nmi_interrupt = Some(1)]
                   ELSE p1
         IN IF p2.scanline >= LinesPerFrame
            THEN [ppu |-> [p2 EXCEPT !.scanline = 0,
                                     !.nmi_interrupt = None,
                                     !.status = StatusResetVblank(
                                                   StatusSetSpriteZeroHit(@, FALSE))],
                  ret |-> TRUE]
            ELSE [ppu |-> p2, ret |-> FALSE]
    ELSE [ppu |-> [p EXCEPT !.cycles = sum], ret |-> FALSE]

\* Ppu::tick(cycles) -> bool.  At most one scanline is advanced per call.
Ppu_tick(p, cycles) ==
    LET sum == p.cycles + cycles IN
    IF sum >= DotsPerLine
    THEN LET p1 == [p EXCEPT !.cycles = sum - DotsPerLine, !.scanline = p.scanline + 1]
             p2 == IF p1.scanline = VblankLine
                   THEN [p1 EXCEPT
                           !.status = StatusSetSpriteZeroHit(StatusSetVblank(@, TRUE), FALSE),
                           !.nmi_interrupt =
                               IF CtrlGenerateVblankNmi(p1.ctrl) THEN Some(1) ELSE @]
                   ELSE p1
         IN IF p2.scanline >= LinesPerFrame
            THEN [ppu |-> [p2 EXCEPT !.scanline = 0,
                                     !.nmi_interrupt = None,
                                     !.status = StatusResetVblank(
                                                   StatusSetSpriteZeroHit(@, FALSE))],
                  ret |-> TRUE]
            ELSE [ppu |-> p2, ret |-> FALSE]
    ELSE [ppu |-> [p EXCEPT !.cycles = sum], ret |-> FALSE]

\* TPpu::write_to_ctrl, raising the pending-interrupt flag when the write
\* enables NMI generation during VBlank.
Ppu_write_to_ctrl_RaisesNmi(p, value) ==
    [p EXCEPT !.ctrl = value,
              !.nmi_interrupt = IF /\ ~CtrlGenerateVblankNmi(p.ctrl)
                                   /\ CtrlGenerateVblankNmi(value)
                                   /\ StatusIsVblank(p.status)
                                THEN Some(1) ELSE @]

\* TPpu::write_to_ctrl: the previous NMI setting is read and dropped.
Ppu_write_to_ctrl(p, value) == [p EXCEPT !.ctrl = value]

\* TPpu::read_status, leaving the write latch as it found it.
Ppu_read_status_LatchKept(p) ==
    [ppu |-> [p EXCEPT !.status = StatusResetVblank(@)], ret |-> p.status]

\* TPpu::read_status: the byte before the read; VBlank and the latch reset.
Ppu_read_status(p) ==
    [ppu |-> [p EXCEPT !.status = StatusResetVblank(@), !.latch = TRUE],
     ret |-> p.status]

\* TPpu::write_to_mask.
Ppu_write_to_mask(p, value) == [p EXCEPT !.mask = value]

\* TPpu::write_to_oam_addr.
Ppu_write_to_oam_addr(p, value) == [p EXCEPT !.oam_addr = value]

\* TPpu::write_to_oam_data, leaving the OAM address where it was.
Ppu_write_to_oam_data_AddrKept(p, value) ==
    [p EXCEPT !.oam_data = MemSet(@, p.oam_addr, value)]

\* TPpu::write_to_oam_data.
Ppu_write_to_oam_data(p, value) ==
    [p EXCEPT !.oam_data = MemSet(@, p.oam_addr, value),
              !.oam_addr = U8(p.oam_addr + 1)]

\* TPpu::read_oam_data.
Ppu_read_oam_data(p) == MemGet(p.oam_data, p.oam_addr)

\* AddrRegister and ScrollRegister (ppu/addr.rs and ppu/scroll.rs are not among
\* the sources): a two-byte address kept within the 14-bit PPU address space,
\* two scroll components, and the first/second-write latch the two share.
AddrGet(p) == p.addr.hi * 256 + p.addr.lo

AddrMirrorDown(a) ==
    Let([v \in {BitAnd(a.hi * 256 + a.lo, 16383)} |->
         [hi |-> v \div 256, lo |-> v % 256]])

AddrUpdate(p, data) ==
    [p EXCEPT !.addr = AddrMirrorDown(IF p.latch THEN [@ EXCEPT !.hi = data]
                                                 ELSE [@ EXCEPT !.lo = data]),
              !.latch = ~p.latch]

AddrIncrement(p, inc) ==
    LET lo == U8(p.addr.lo + inc)
        hi == IF p.addr.lo > lo THEN U8(p.addr.hi + 1) ELSE p.addr.hi
    IN [p EXCEPT !.addr = AddrMirrorDown([hi |-> hi, lo |-> lo])]

ScrollWrite(p, data) ==
    [p EXCEPT !.scroll = IF p.latch THEN [@ EXCEPT !.scroll_x = data]
                                    ELSE [@ EXCEPT !.scroll_y = data],
              !.latch = ~p.latch]

\* TPpu::write_to_scroll with a latch of its own, which an Address write
\* does not see: the shared latch is left as it was.
Ppu_write_to_scroll_OwnLatch(p, value) ==
    [p EXCEPT !.scroll = IF p.latch THEN [@ EXCEPT !.scroll_x = value]
                                    ELSE [@ EXCEPT !.scroll_y = value]]

\* TPpu::write_to_scroll and TPpu::write_to_ppu_addr.
Ppu_write_to_scroll(p, value) == ScrollWrite(p, value)

Ppu_write_to_ppu_addr(p, value) == AddrUpdate(p, value)

\* Ppu::increment_vram_addr, stepping by 1 whatever Control selects.
Ppu_increment_vram_addr_ByOne(p) == AddrIncrement(p, 1)

\* Ppu::increment_vram_addr.
Ppu_increment_vram_addr(p) == AddrIncrement(p, CtrlVramAddrIncrement(p.ctrl))

VramSize == 2048

PaletteSize == 32

\* Ppu::mirror_vram_addr with the tables of the two modes exchanged.
Ppu_mirror_vram_addr_Exchanged(p, addr) ==
    Let([vram_index \in {BitAnd(addr, 12287) - 8192} |->
    Let([name_table \in {vram_index \div 1024} |->
         CASE p.mirroring = "HORIZONTAL" /\ name_table \in {2, 3} -> vram_index - 2048
           [] p.mirroring = "VERTICAL" /\ name_table = 2 -> vram_index - 1024
           [] p.mirroring = "VERTICAL" /\ name_table = 1 -> vram_index - 1024
           [] p.mirroring = "VERTICAL" /\ name_table = 3 -> vram_index - 2048
           [] OTHER -> vram_index])])

\* Ppu::mirror_vram_addr.
Ppu_mirror_vram_addr(p, addr) ==
    Let([vram_index \in {BitAnd(addr, 12287) - 8192} |->
    Let([name_table \in {vram_index \div 1024} |->
         CASE p.mirroring = "VERTICAL" /\ name_table \in {2, 3} -> vram_index - 2048
           [] p.mirroring = "HORIZONTAL" /\ name_table = 2 -> vram_index - 1024
           [] p.mirroring = "HORIZONTAL" /\ name_table = 1 -> vram_index - 1024
           [] p.mirroring = "HORIZONTAL" /\ name_table = 3 -> vram_index - 2048
           [] OTHER -> vram_index])])

PaletteMirrors == {16144, 16148, 16152, 16156}

\* TPpu::write_to_data with no arm for the four palette mirror addresses,
\* which then fall into the arm of the whole palette range.
Ppu_write_to_data_MirrorsApart(p, value) ==
    Let([addr \in {AddrGet(p)} |->
    Let([p1 \in {CASE addr <= 8191 -> p
                   [] addr \in 8192..12287 ->
                        Let([i \in {Ppu_mirror_vram_addr(p, addr)} |->
                             IF i < VramSize
                             THEN [p EXCEPT !.vram = MemSet(@, i, value)]
                             ELSE [p EXCEPT !.panic = "index out of bounds"]])
                   [] addr \in 12288..16127 -> [p EXCEPT !.panic = "unimplemented"]
                   [] OTHER ->
                        IF addr - 16128 < PaletteSize
                        THEN [p EXCEPT !.palette_table = MemSet(@, addr - 16128, value)]
                        ELSE [p EXCEPT !.panic = "index out of bounds"]} |->
         IF p1.panic # "" THEN p1
         ELSE AddrIncrement(p1, CtrlVramAddrIncrement(p1.ctrl))])])

\* TPpu::write_to_data.  An index outside an array panics.
Ppu_write_to_data(p, value) ==
    Let([addr \in {AddrGet(p)} |->
    Let([p1 \in {CASE addr <= 8191 -> p
                   [] addr \in 8192..12287 ->
                        Let([i \in {Ppu_mirror_vram_addr(p, addr)} |->
                             IF i < VramSize
                             THEN [p EXCEPT !.vram = MemSet(@, i, value)]
                             ELSE [p EXCEPT !.panic = "index out of bounds"]])
                   [] addr \in 12288..16127 -> [p EXCEPT !.panic = "unimplemented"]
                   [] addr \in PaletteMirrors ->
                        [p EXCEPT !.palette_table = MemSet(@, addr - 16 - 16128, value)]
                   [] addr \in 16128..16383 /\ addr \notin PaletteMirrors ->
                        IF addr - 16128 < PaletteSize
                        THEN [p EXCEPT !.palette_table = MemSet(@, addr - 16128, value)]
                        ELSE [p EXCEPT !.panic = "index out of bounds"]
                   [] OTHER -> [p EXCEPT !.panic = "unexpected access to mirrored space"]} |->
         IF p1.panic # "" THEN p1 ELSE Ppu_increment_vram_addr(p1)])])

\* TPpu::read_data, returning the byte at the address read instead of the
\* byte latched before.
Ppu_read_data_Unbuffered(p) ==
    Let([addr \in {AddrGet(p)} |->
    Let([p1 \in {AddrIncrement(p, CtrlVramAddrIncrement(p.ctrl))} |->
         CASE addr <= 8191 ->
                [ppu |-> [p1 EXCEPT !.internal_data_buf = MemGet(p.char_data.mem, addr)],
                 ret |-> MemGet(p.char_data.mem, addr)]
           [] addr \in 8192..12287 ->
                [ppu |-> [p1 EXCEPT !.internal_data_buf =
                                       MemGet(p.vram, Ppu_mirror_vram_addr(p, addr))],
                 ret |-> MemGet(p.vram, Ppu_mirror_vram_addr(p, addr))]
           [] addr \in 12288..16127 ->
                [ppu |-> [p1 EXCEPT !.panic = "unimplemented"], ret |-> 0]
           [] addr \in PaletteMirrors ->
                [ppu |-> p1, ret |-> MemGet(p.palette_table, addr - 16 - 16128)]
           [] OTHER ->
                IF addr - 16128 < PaletteSize
                THEN [ppu |-> p1, ret |-> MemGet(p.palette_table, addr - 16128)]
                ELSE [ppu |-> [p1 EXCEPT !.panic = "index out of bounds"], ret |-> 0]])])

\* TPpu::read_data.  The address is advanced before the access is decoded.
Ppu_read_data(p) ==
    Let([addr \in {AddrGet(p)} |->
    Let([p1 \in {Ppu_increment_vram_addr(p)} |->
         CASE addr <= 8191 ->
                IF addr < p.char_data.len
                THEN [ppu |-> [p1 EXCEPT !.internal_data_buf = MemGet(p.char_data.mem, addr)],
                      ret |-> p.internal_data_buf]
                ELSE [ppu |-> [p1 EXCEPT !.panic = "index out of bounds"], ret |-> 0]
           [] addr \in 8192..12287 ->
                Let([i \in {Ppu_mirror_vram_addr(p, addr)} |->
                     IF i < VramSize
                     THEN [ppu |-> [p1 EXCEPT !.internal_data_buf = MemGet(p.vram, i)],
                           ret |-> p.internal_data_buf]
                     ELSE [ppu |-> [p1 EXCEPT !.panic = "index out of bounds"], ret |-> 0]])
           [] addr \in 12288..16127 ->
                [ppu |-> [p1 EXCEPT !.panic = "unimplemented"], ret |-> 0]
           [] addr \in PaletteMirrors ->
                [ppu |-> p1, ret |-> MemGet(p.palette_table, addr - 16 - 16128)]
           [] addr \in 16128..16383 /\ addr \notin PaletteMirrors ->
                IF addr - 16128 < PaletteSize
                THEN [ppu |-> p1, ret |-> MemGet(p.palette_table, addr - 16128)]
                ELSE [ppu |-> [p1 EXCEPT !.panic = "index out of bounds"], ret |-> 0]
           [] OTHER ->
                [ppu |-> [p1 EXCEPT !.panic = "unexpected access to mirrored space"],
                 ret |-> 0]])])

\* TPpu::write_oam_dma, for the n bytes from byte i of the 256-byte buffer on:
\* the first half of them, then the rest.
RECURSIVE OamDmaFrom(_, _, _, _)
OamDmaFrom(p, data, i, n) ==
    IF n = 1
    THEN [p EXCEPT !.oam_data = MemSet(@, p.oam_addr, data[i]),
                   !.oam_addr = U8(@ + 1)]
    ELSE Let([first \in {OamDmaFrom(p, data, i, n \div 2)} |->
              OamDmaFrom(first, data, i + n \div 2, n - n \div 2)])

\* TPpu::write_oam_dma, storing from OAM index 0 whatever the OAM address.
Ppu_write_oam_dma_FromZero(p, data) ==
    [OamDmaFrom([p EXCEPT !.oam_addr = 0], data, 0, 256) EXCEPT !.oam_addr = p.oam_addr]

\* TPpu::write_oam_dma: data is the 256-byte buffer, a function on 0..255.
Ppu_write_oam_dma(p, data) == OamDmaFrom(p, data, 0, 256)

---------------------------------------------------------------------------
(* Bus (src/src/cpu/bus.rs).                                               *)

RAM == 0

RAM_MIRRORS_END == 8191

PPU_REGISTERS_MIRRORS_END == 16383

\* Bus::new.  gameloop_callback is kept as the number of times it was invoked.
Bus_new(rom) ==
    [ cpu_vram          |-> EmptyMem,
      program_data      |-> rom.program_data,
      ppu               |-> new_ppu(rom.char_data, rom.screen_mirroring),
      cycles            |-> 0,
      gameloop_callback |-> 0,
      panic             |-> "" ]

BusPanicked(b) == b.panic # "" \/ b.ppu.panic # ""

\* An arithmetic overflow: a panic in a debug build, a wrapped value in a
\* release build.
Overflowed(b, overflow) ==
    IF overflow /\ build = "debug" /\ b.panic = ""
    THEN [b EXCEPT !.panic = "arithmetic overflow"]
    ELSE b

\* Bus::read_program_data, indexing a 16 KiB bank without folding the upper
\* half of the window onto it.
Bus_read_program_data_NoMirror(b, addr) ==
    IF addr - 32768 < b.program_data.len
    THEN [bus |-> b, ret |-> MemGet(b.program_data.mem, addr - 32768)]
    ELSE [bus |-> [b EXCEPT !.panic = "index out of bounds"], ret |-> 0]

\* Bus::read_program_data.
Bus_read_program_data(b, addr) ==
    LET a1 == addr - 32768
        a2 == IF b.program_data.len = 16384 /\ a1 >= 16384 THEN a1 % 16384 ELSE a1
    IN IF a2 < b.program_data.len
       THEN [bus |-> b, ret |-> MemGet(b.program_data.mem, a2)]
       ELSE [bus |-> [b EXCEPT !.panic = "index out of bounds"], ret |-> 0]

\* Bus::tick.  cycles * 3 is a u8 multiplication.
Bus_tick(b, cycles) ==
    Let([b2 \in {Overflowed([b EXCEPT !.cycles = @ + cycles], cycles * 3 > 255)} |->
         IF b2.panic # "" THEN b2
         ELSE Let([r \in {Ppu_tick(b2.ppu, U8(cycles * 3))} |->
                   [b2 EXCEPT !.ppu = r.ppu,
                              !.gameloop_callback = IF r.ret THEN @ + 1 ELSE @]])])

\* Bus::poll_nmi_status, leaving the flag as it found it.
Bus_poll_nmi_status_NoTake(b) == [bus |-> b, ret |-> b.ppu.nmi_interrupt]

\* Bus::poll_nmi_status: Option::take.
Bus_poll_nmi_status(b) ==
    [bus |-> [b EXCEPT !.ppu.nmi_interrupt = None], ret |-> b.ppu.nmi_interrupt]

\* Bus::mem_read, every arm but the PPU register mirrors.
Bus_mem_read_decoded(b, addr) ==
    CASE addr \in RAM..RAM_MIRRORS_END ->
           [bus |-> b, ret |-> MemGet(b.cpu_vram, BitAnd(addr, 2047))]
      [] addr \in {8192, 8193, 8195, 8197, 8198, 16404} -> [bus |-> b, ret |-> 0]
      [] addr = 8194 ->
           Let([r \in {Ppu_read_status(b.ppu)} |->
                [bus |-> [b EXCEPT !.ppu = r.ppu], ret |-> r.ret]])
      [] addr = 8196 -> [bus |-> b, ret |-> Ppu_read_oam_data(b.ppu)]
      [] addr = 8199 ->
           Let([r \in {Ppu_read_data(b.ppu)} |->
                [bus |-> [b EXCEPT !.ppu = r.ppu], ret |-> r.ret]])
      [] addr \in 16384..16407 /\ addr # 16404 -> [bus |-> b, ret |-> 0]
      [] addr \in 32768..65535 -> Bus_read_program_data(b, addr)
      [] OTHER -> [bus |-> b, ret |-> 0]

\* Bus::mem_read with the first controller port returning an open-bus byte.
Bus_mem_read_OpenBus(b, addr) ==
    IF addr = 16406
    THEN [bus |-> b, ret |-> 64]
    ELSE Bus_mem_read_decoded(b, IF addr \in 8200..PPU_REGISTERS_MIRRORS_END
                                 THEN BitAnd(addr, 8199) ELSE addr)

\* Bus::mem_read: a PPU register mirror is read again at the mirrored-down
\* address, every other address is decoded as it is.
Bus_mem_read(b, addr) ==
    Bus_mem_read_decoded(b, IF addr \in 8200..PPU_REGISTERS_MIRRORS_END
                            THEN BitAnd(addr, 8199) ELSE addr)

\* Memory::mem_read_u16 (the trait's default method, which Bus inherits).
Bus_mem_read_u16(b, pos) ==
    Let([lo \in {Bus_mem_read(b, pos)} |->
    Let([hi \in {Bus_mem_read(Overflowed(lo.bus, pos + 1 > 65535), U16(pos + 1))} |->
         [bus |-> hi.bus, ret |-> hi.ret * 256 + lo.ret]])])

\* The n reads of an OAM DMA from read i on, the first half of them and then
\* the rest: the bytes read, by their index, and the bus after the reads.
RECURSIVE DmaReadsFrom(_, _, _, _)
DmaReadsFrom(b, hi, i, n) ==
    IF n = 1
    THEN Let([r \in {Bus_mem_read(b, hi + i)} |->
              [bus |-> r.bus, buffer |-> (i :> r.ret)]])
    ELSE Let([first \in {DmaReadsFrom(b, hi, i, n \div 2)} |->
         Let([rest  \in {DmaReadsFrom(first.bus, hi, i + n \div 2, n - n \div 2)} |->
              [bus |-> rest.bus, buffer |-> first.buffer @@ rest.buffer]])])

DmaReads(b, hi) == DmaReadsFrom(b, hi, 0, 256)

\* Bus::mem_write, every arm but the PPU register mirrors.
Bus_mem_write_decoded(b, addr, data) ==
    CASE addr \in RAM..RAM_MIRRORS_END ->
           [b EXCEPT !.cpu_vram = MemSet(@, BitAnd(addr, 2047), data)]
      [] addr = 8192 -> [b EXCEPT !.ppu = Ppu_write_to_ctrl(@, data)]
      [] addr = 8193 -> [b EXCEPT !.ppu = Ppu_write_to_mask(@, data)]
      [] addr = 8194 -> [b EXCEPT !.panic = "attempt to write to PPU status register"]
      [] addr = 8195 -> [b EXCEPT !.ppu = Ppu_write_to_oam_addr(@, data)]
      [] addr = 8196 -> [b EXCEPT !.ppu = Ppu_write_to_oam_data(@, data)]
      [] addr = 8197 -> [b EXCEPT !.ppu = Ppu_write_to_scroll(@, data)]
      [] addr = 8198 -> [b EXCEPT !.ppu = Ppu_write_to_ppu_addr(@, data)]
      [] addr = 8199 -> [b EXCEPT !.ppu = Ppu_write_to_data(@, data)]
      [] addr \in 16384..16403 \/ addr \in {16405, 16406, 16407} -> b
      [] addr = 16404 ->
           Let([r \in {DmaReads(b, data * 256)} |->
                [r.bus EXCEPT !.ppu = Ppu_write_oam_dma(@, r.buffer)]])
      [] addr \in 32768..65535 ->
           [b EXCEPT !.panic = "Attempt to write to Cartridge ROM space"]
      [] OTHER -> b

\* Bus::mem_write, storing only through the first 2 KiB of the work-RAM
\* window.
Bus_mem_write_MirrorsDropped(b, addr, data) ==
    IF addr \in 2048..RAM_MIRRORS_END
    THEN b
    ELSE Bus_mem_write_decoded(b, IF addr \in 8200..PPU_REGISTERS_MIRRORS_END
                                  THEN BitAnd(addr, 8199) ELSE addr, data)

\* Bus::mem_write, mirroring the PPU registers down with a mask that keeps
\* two address bits.
Bus_mem_write_NarrowMask(b, addr, data) ==
    Bus_mem_write_decoded(b, IF addr \in 8200..PPU_REGISTERS_MIRRORS_END
                             THEN BitAnd(addr, 8195) ELSE addr, data)

\* Bus::mem_write: a PPU register mirror is written again at the mirrored-down
\* address, every other address is decoded as it is.
Bus_mem_write(b, addr, data) ==
    Bus_mem_write_decoded(b, IF addr \in 8200..PPU_REGISTERS_MIRRORS_END
                             THEN BitAnd(addr, 8199) ELSE addr, data)

---------------------------------------------------------------------------
(* Cpu (src/src/cpu/cpu.rs): construction.                                 *)

STACK == 256

STACK_RESET == 253

\* CpuFlags.
CARRY == 1

ZERO == 2

INTERRUPT_DISABLE == 4

DECIMAL_MODE == 8

BREAK == 16

BREAK2 == 32

OVERFLOW == 64

NEGATIV == 128

\* Cpu::new.
Cpu_new(b) ==
    [ reg_a  |-> 0,
      reg_x  |-> 0,
      reg_y  |-> 0,
      reg_sp |-> STACK_RESET,
      reg_pc |-> 0,
      status |-> 36,
      bus    |-> b ]

\* A cartridge as Rom::load returns it: program and character data of the
\* sizes the header gives (sparse, like every memory here) and the mirroring.
Cartridge(prg_len, prg, chr_len, mirroring) ==
    [ program_data     |-> [len |-> prg_len, mem |-> prg],
      char_data        |-> [len |-> chr_len, mem |-> EmptyMem],
      screen_mirroring |-> mirroring ]

BlankCartridge == Cartridge(16384, EmptyMem, 8192, "HORIZONTAL")

---------------------------------------------------------------------------
(* Cpu: memory access, flags and addressing (src/src/cpu/cpu.rs).  A Cpu    *)
(* method is an operator from the Cpu before the call to the Cpu after it,  *)
(* or to [cpu, ret] when it returns a value.  A panic raised in the Cpu is  *)
(* recorded in the panic field of its bus.                                  *)

CpuPanic(c, msg) == [c EXCEPT !.bus.panic = IF @ = "" THEN msg ELSE @]

CpuOverflowed(c, overflow) == [c EXCEPT !.bus = Overflowed(@, overflow)]

\* impl Memory for Cpu: mem_read.
Cpu_mem_read(c, addr) ==
    Let([r \in {Bus_mem_read(c.bus, addr)} |->
         [cpu |-> [c EXCEPT !.bus = r.bus], ret |-> r.ret]])

\* impl Memory for Cpu: mem_write.
Cpu_mem_write(c, addr, data) == [c EXCEPT !.bus = Bus_mem_write(@, addr, data)]

\* impl Memory for Cpu: mem_read_u16.
Cpu_mem_read_u16(c, addr) ==
    Let([r \in {Bus_mem_read_u16(c.bus, addr)} |->
         [cpu |-> [c EXCEPT !.bus = r.bus], ret |-> r.ret]])

\* bitflags: contains, insert, remove, set.
FlagContains(status, f) == BitAnd(status, f) # 0

FlagInsert(status, f) == BitOr(status, f)

FlagRemove(status, f) == BitClear(status, f)

FlagSet(status, f, on) == IF on THEN FlagInsert(status, f) ELSE FlagRemove(status, f)

\* enum AddressingMode, in declaration order.
AddressingModes ==
    << "Immediate", "ZeroPage", "ZeroPage_X", "ZeroPage_Y", "Absolute",
       "Absolute_X", "Absolute_Y", "Indirect_X", "Indirect_Y", "NoneAddressing" >>

\* Cpu::get_operand_address, reading the high byte of the indexed-indirect
\* pointer at ptr + 1 without the 8-bit wrap.
Cpu_get_operand_address_PointerUnwrapped(c, mode) ==
    CASE mode = "Immediate" -> [cpu |-> c, ret |-> c.reg_pc]
      [] mode = "ZeroPage"  -> Cpu_mem_read(c, c.reg_pc)
      [] mode = "Absolute" -> Cpu_mem_read_u16(c, c.reg_pc)
      [] mode = "ZeroPage_X" ->
           Let([pos \in {Cpu_mem_read(c, c.reg_pc)} |->
                [cpu |-> pos.cpu, ret |-> U8(pos.ret + c.reg_x)]])
      [] mode = "ZeroPage_Y" ->
           Let([pos \in {Cpu_mem_read(c, c.reg_pc)} |->
                [cpu |-> pos.cpu, ret |-> U8(pos.ret + c.reg_y)]])
      [] mode = "Absolute_X" ->
           Let([base \in {Cpu_mem_read_u16(c, c.reg_pc)} |->
                [cpu |-> base.cpu, ret |-> U16(base.ret + c.reg_x)]])
      [] mode = "Absolute_Y" ->
           Let([base \in {Cpu_mem_read_u16(c, c.reg_pc)} |->
                [cpu |-> base.cpu, ret |-> U16(base.ret + c.reg_y)]])
      [] mode = "Indirect_X" ->
           Let([base \in {Cpu_mem_read(c, c.reg_pc)} |->
           Let([ptr  \in {U8(base.ret + c.reg_x)} |->
           Let([lo   \in {Cpu_mem_read(base.cpu, ptr)} |->
           Let([hi   \in {Cpu_mem_read(lo.cpu, ptr + 1)} |->
                [cpu |-> hi.cpu, ret |-> hi.ret * 256 + lo.ret]])])])])
      [] mode = "Indirect_Y" ->
           Let([base \in {Cpu_mem_read(c, c.reg_pc)} |->
           Let([lo   \in {Cpu_mem_read(base.cpu, base.ret)} |->
           Let([hi   \in {Cpu_mem_read(lo.cpu, U8(base.ret + 1))} |->
                [cpu |-> hi.cpu, ret |-> U16(hi.ret * 256 + lo.ret + c.reg_y)]])])])
      [] OTHER -> [cpu |-> CpuPanic(c, "mode is not supported"), ret |-> 0]

\* Cpu::get_operand_address.
Cpu_get_operand_address(c, mode) ==
    CASE mode = "Immediate" -> [cpu |-> c, ret |-> c.reg_pc]
      [] mode = "ZeroPage"  -> Cpu_mem_read(c, c.reg_pc)
      [] mode = "Absolute" -> Cpu_mem_read_u16(c, c.reg_pc)
      [] mode = "ZeroPage_X" ->
           Let([pos \in {Cpu_mem_read(c, c.reg_pc)} |->
                [cpu |-> pos.cpu, ret |-> U8(pos.ret + c.reg_x)]])
      [] mode = "ZeroPage_Y" ->
           Let([pos \in {Cpu_mem_read(c, c.reg_pc)} |->
                [cpu |-> pos.cpu, ret |-> U8(pos.ret + c.reg_y)]])
      [] mode = "Absolute_X" ->
           Let([base \in {Cpu_mem_read_u16(c, c.reg_pc)} |->
                [cpu |-> base.cpu, ret |-> U16(base.ret + c.reg_x)]])
      [] mode = "Absolute_Y" ->
           Let([base \in {Cpu_mem_read_u16(c, c.reg_pc)} |->
                [cpu |-> base.cpu, ret |-> U16(base.ret + c.reg_y)]])
      [] mode = "Indirect_X" ->
           Let([base \in {Cpu_mem_read(c, c.reg_pc)} |->
           Let([ptr  \in {U8(base.ret + c.reg_x)} |->
           Let([lo   \in {Cpu_mem_read(base.cpu, ptr)} |->
           Let([hi   \in {Cpu_mem_read(lo.cpu, U8(ptr + 1))} |->
                [cpu |-> hi.cpu, ret |-> hi.ret * 256 + lo.ret]])])])])
      [] mode = "Indirect_Y" ->
           Let([base \in {Cpu_mem_read(c, c.reg_pc)} |->
           Let([lo   \in {Cpu_mem_read(base.cpu, base.ret)} |->
           Let([hi   \in {Cpu_mem_read(lo.cpu, U8(base.ret + 1))} |->
                [cpu |-> hi.cpu, ret |-> U16(hi.ret * 256 + lo.ret + c.reg_y)]])])])
      [] OTHER -> [cpu |-> CpuPanic(c, "mode is not supported"), ret |-> 0]

\* get_operand_address followed by mem_read of the address: the opening of
\* most instructions.  ret is the data, addr the address.
Cpu_read_operand(c, mode) ==
    Let([a \in {Cpu_get_operand_address(c, mode)} |->
    Let([d \in {Cpu_mem_read(a.cpu, a.ret)} |->
         [cpu |-> d.cpu, ret |-> d.ret, addr |-> a.ret]])])

\* Cpu::update_zero_and_negative_flags, setting the flags but never clearing
\* them.
Cpu_update_zero_and_negative_flags_SetOnly(c, result) ==
    [c EXCEPT !.status = FlagSet(FlagSet(@, ZERO, result = 0 \/ FlagContains(@, ZERO)),
                                 NEGATIV, result \div 128 = 1 \/ FlagContains(@, NEGATIV))]

\* Cpu::update_zero_and_negative_flags.
Cpu_update_zero_and_negative_flags(c, result) ==
    [c EXCEPT !.status = FlagSet(FlagSet(@, ZERO, result = 0),
                                 NEGATIV, result \div 128 = 1)]

\* Cpu::update_negative_flags.
Cpu_update_negative_flags(c, result) ==
    [c EXCEPT !.status = FlagSet(@, NEGATIV, result \div 128 = 1)]

\* Cpu::set_reg_a.
Cpu_set_reg_a(c, value) ==
    Cpu_update_zero_and_negative_flags([c EXCEPT !.reg_a = value], value)

\* Cpu::set_carry_flag / clear_carry_flag, by the tested bit.
Cpu_carry(c, on) == [c EXCEPT !.status = FlagSet(@, CARRY, on)]

\* Cpu::ldy.
Cpu_ldy(c, mode) ==
    Let([r \in {Cpu_read_operand(c, mode)} |->
         Cpu_update_zero_and_negative_flags([r.cpu EXCEPT !.reg_y = r.ret], r.ret)])

\* Cpu::ldx.
Cpu_ldx(c, mode) ==
    Let([r \in {Cpu_read_operand(c, mode)} |->
         Cpu_update_zero_and_negative_flags([r.cpu EXCEPT !.reg_x = r.ret], r.ret)])

\* Cpu::lda.
Cpu_lda(c, mode) ==
    Let([r \in {Cpu_read_operand(c, mode)} |-> Cpu_set_reg_a(r.cpu, r.ret)])

\* Cpu::sta.
Cpu_sta(c, mode) ==
    Let([a \in {Cpu_get_operand_address(c, mode)} |->
         Cpu_mem_write(a.cpu, a.ret, a.cpu.reg_a)])

\* Cpu::and_with_reg_a.
Cpu_and_with_reg_a(c, data) == Cpu_set_reg_a(c, BitAnd(data, c.reg_a))

\* Cpu::xor_with_reg_a.
Cpu_xor_with_reg_a(c, data) == Cpu_set_reg_a(c, BitXor(data, c.reg_a))

\* Cpu::or_with_reg_a.
Cpu_or_with_reg_a(c, data) == Cpu_set_reg_a(c, BitOr(data, c.reg_a))

\* Cpu::and.
Cpu_and(c, mode) ==
    Let([r \in {Cpu_read_operand(c, mode)} |-> Cpu_and_with_reg_a(r.cpu, r.ret)])

\* Cpu::eor.
Cpu_eor(c, mode) ==
    Let([r \in {Cpu_read_operand(c, mode)} |-> Cpu_xor_with_reg_a(r.cpu, r.ret)])

\* Cpu::ora.
Cpu_ora(c, mode) ==
    Let([r \in {Cpu_read_operand(c, mode)} |-> Cpu_or_with_reg_a(r.cpu, r.ret)])

\* Cpu::tax.
Cpu_tax(c) ==
    Cpu_update_zero_and_negative_flags([c EXCEPT !.reg_x = c.reg_a], c.reg_a)

\* Cpu::inx.
Cpu_inx(c) ==
    LET v == U8(c.reg_x + 1)
    IN Cpu_update_zero_and_negative_flags([c EXCEPT !.reg_x = v], v)

\* Cpu::iny.
Cpu_iny(c) ==
    LET v == U8(c.reg_y + 1)
    IN Cpu_update_zero_and_negative_flags([c EXCEPT !.reg_y = v], v)

\* Cpu::dex.
Cpu_dex(c) ==
    LET v == U8(c.reg_x + 255)
    IN Cpu_update_zero_and_negative_flags([c EXCEPT !.reg_x = v], v)

\* Cpu::dey.
Cpu_dey(c) ==
    LET v == U8(c.reg_y + 255)
    IN Cpu_update_zero_and_negative_flags([c EXCEPT !.reg_y = v], v)

\* Cpu::reset, clearing work RAM as well.
Cpu_reset_MemoryCleared(c) ==
    Let([r \in {Cpu_mem_read_u16([c EXCEPT !.reg_a = 0, !.reg_x = 0, !.reg_y = 0,
                                           !.reg_sp = STACK_RESET, !.status = 36,
                                           !.bus.cpu_vram = EmptyMem],
                                  65532)} |->
         [r.cpu EXCEPT !.reg_pc = r.ret]])

\* Cpu::reset.
Cpu_reset(c) ==
    Let([r \in {Cpu_mem_read_u16([c EXCEPT !.reg_a = 0, !.reg_x = 0, !.reg_y = 0,
                                           !.reg_sp = STACK_RESET, !.status = 36],
                                  65532)} |->
         [r.cpu EXCEPT !.reg_pc = r.ret]])

\* Cpu::add_to_reg_a, leaving the incoming carry out of the sum.
Cpu_add_to_reg_a_NoCarryIn(c, data) ==
    LET sum    == c.reg_a + data
        result == U8(sum)
        c1     == Cpu_carry(c, sum > 255)
        ovf    == BitAnd(BitAnd(BitXor(data, result), BitXor(result, c.reg_a)), 128) # 0
        c2     == [c1 EXCEPT !.status = FlagSet(@, OVERFLOW, ovf)]
    IN Cpu_set_reg_a(c2, result)

\* Cpu::add_to_reg_a.
Cpu_add_to_reg_a(c, data) ==
    LET sum    == c.reg_a + data + (IF FlagContains(c.status, CARRY) THEN 1 ELSE 0)
        result == U8(sum)
        c1     == Cpu_carry(c, sum > 255)
        ovf    == BitAnd(BitAnd(BitXor(data, result), BitXor(result, c.reg_a)), 128) # 0
        c2     == [c1 EXCEPT !.status = FlagSet(@, OVERFLOW, ovf)]
    IN Cpu_set_reg_a(c2, result)

\* Cpu::sub_from_reg_a, adding the two's complement of the operand.
Cpu_sub_from_reg_a_Negated(c, data) == Cpu_add_to_reg_a(c, U8(256 - data))

\* Cpu::sub_from_reg_a: the operand is (data as i8).wrapping_neg().wrapping_sub(1).
Cpu_sub_from_reg_a(c, data) == Cpu_add_to_reg_a(c, U8(256 - data + 255))

\* Cpu::sbc.
Cpu_sbc(c, mode) ==
    Let([r \in {Cpu_read_operand(c, mode)} |->
         Cpu_add_to_reg_a(r.cpu, U8(256 - r.ret + 255))])

\* Cpu::adc.
Cpu_adc(c, mode) ==
    Let([r \in {Cpu_read_operand(c, mode)} |-> Cpu_add_to_reg_a(r.cpu, r.ret)])

\* Cpu::stack_pop.
Cpu_stack_pop(c) ==
    LET c1 == [c EXCEPT !.reg_sp = U8(@ + 1)]
    IN Cpu_mem_read(c1, STACK + c1.reg_sp)

\* Cpu::stack_push.
Cpu_stack_push(c, data) ==
    [Cpu_mem_write(c, STACK + c.reg_sp, data) EXCEPT !.reg_sp = U8(@ + 255)]

\* Cpu::stack_push_u16, pushing the low byte first.
Cpu_stack_push_u16_LowFirst(c, data) ==
    Cpu_stack_push(Cpu_stack_push(c, data % 256), data \div 256)

\* Cpu::stack_push_u16.
Cpu_stack_push_u16(c, data) ==
    Cpu_stack_push(Cpu_stack_push(c, data \div 256), data % 256)

\* Cpu::stack_pop_u16.
Cpu_stack_pop_u16(c) ==
    Let([lo \in {Cpu_stack_pop(c)} |->
    Let([hi \in {Cpu_stack_pop(lo.cpu)} |->
         [cpu |-> hi.cpu, ret |-> hi.ret * 256 + lo.ret]])])

\* Cpu::asl_accumulator.
Cpu_asl_accumulator(c) ==
    Cpu_set_reg_a(Cpu_carry(c, c.reg_a \div 128 = 1), U8(c.reg_a * 2))

\* Cpu::asl.
Cpu_asl(c, mode) ==
    Let([r    \in {Cpu_read_operand(c, mode)} |->
    Let([data \in {U8(r.ret * 2)} |->
    Let([c1   \in {Cpu_mem_write(Cpu_carry(r.cpu, r.ret \div 128 = 1), r.addr, data)} |->
         [cpu |-> Cpu_update_zero_and_negative_flags(c1, data), ret |-> data]])])])

\* Cpu::lsr_accumulator.
Cpu_lsr_accumulator(c) ==
    Cpu_set_reg_a(Cpu_carry(c, c.reg_a % 2 = 1), c.reg_a \div 2)

\* Cpu::lsr.
Cpu_lsr(c, mode) ==
    Let([r    \in {Cpu_read_operand(c, mode)} |->
    Let([data \in {r.ret \div 2} |->
    Let([c1   \in {Cpu_mem_write(Cpu_carry(r.cpu, r.ret % 2 = 1), r.addr, data)} |->
         [cpu |-> Cpu_update_zero_and_negative_flags(c1, data), ret |-> data]])])])

\* Cpu::rol.
Cpu_rol(c, mode) ==
    Let([r    \in {Cpu_read_operand(c, mode)} |->
    Let([old  \in {FlagContains(r.cpu.status, CARRY)} |->
    Let([data \in {U8(r.ret * 2) + (IF old THEN 1 ELSE 0)} |->
    Let([c1   \in {Cpu_mem_write(Cpu_carry(r.cpu, r.ret \div 128 = 1), r.addr, data)} |->
         [cpu |-> Cpu_update_negative_flags(c1, data), ret |-> data]])])])])

\* Cpu::rol_accumulator.
Cpu_rol_accumulator(c) ==
    LET old  == FlagContains(c.status, CARRY)
        data == U8(c.reg_a * 2) + (IF old THEN 1 ELSE 0)
    IN Cpu_set_reg_a(Cpu_carry(c, c.reg_a \div 128 = 1), data)

\* Cpu::ror.
Cpu_ror(c, mode) ==
    Let([r    \in {Cpu_read_operand(c, mode)} |->
    Let([old  \in {FlagContains(r.cpu.status, CARRY)} |->
    Let([data \in {r.ret \div 2 + (IF old THEN 128 ELSE 0)} |->
    Let([c1   \in {Cpu_mem_write(Cpu_carry(r.cpu, r.ret % 2 = 1), r.addr, data)} |->
         [cpu |-> Cpu_update_negative_flags(c1, data), ret |-> data]])])])])

\* Cpu::ror_accumulator.
Cpu_ror_accumulator(c) ==
    LET old  == FlagContains(c.status, CARRY)
        data == c.reg_a \div 2 + (IF old THEN 128 ELSE 0)
    IN Cpu_set_reg_a(Cpu_carry(c, c.reg_a % 2 = 1), data)

\* Cpu::inc.
Cpu_inc(c, mode) ==
    Let([r    \in {Cpu_read_operand(c, mode)} |->
    Let([data \in {U8(r.ret + 1)} |->
    Let([c1   \in {Cpu_mem_write(r.cpu, r.addr, data)} |->
         [cpu |-> Cpu_update_zero_and_negative_flags(c1, data), ret |-> data]])])])

\* Cpu::dec.
Cpu_dec(c, mode) ==
    Let([r    \in {Cpu_read_operand(c, mode)} |->
    Let([data \in {U8(r.ret + 255)} |->
    Let([c1   \in {Cpu_mem_write(r.cpu, r.addr, data)} |->
         [cpu |-> Cpu_update_zero_and_negative_flags(c1, data), ret |-> data]])])])

\* Cpu::pla.
Cpu_pla(c) ==
    Let([r \in {Cpu_stack_pop(c)} |-> Cpu_set_reg_a(r.cpu, r.ret)])

\* Cpu::plp, keeping the popped byte as it is.
Cpu_plp_Raw(c) ==
    Let([r \in {Cpu_stack_pop(c)} |->
         [r.cpu EXCEPT !.status = r.ret]])

\* Cpu::plp.
Cpu_plp(c) ==
    Let([r \in {Cpu_stack_pop(c)} |->
         [r.cpu EXCEPT !.status = FlagInsert(FlagRemove(r.ret, BREAK), BREAK2)]])

\* Cpu::php.
Cpu_php(c) ==
    Cpu_stack_push(c, FlagInsert(FlagInsert(c.status, BREAK), BREAK2))

\* Cpu::bit.
Cpu_bit(c, mode) ==
    Let([r \in {Cpu_read_operand(c, mode)} |->
         LET s1 == FlagSet(r.cpu.status, ZERO, BitAnd(r.cpu.reg_a, r.ret) = 0)
             s2 == FlagSet(s1, NEGATIV, BitAnd(r.ret, 128) > 0)
         IN [r.cpu EXCEPT !.status = FlagSet(s2, OVERFLOW, BitAnd(r.ret, 64) > 0)]])

\* Cpu::compare, setting Carry only for an operand below the register.
Cpu_compare_Strict(c, mode, compare_with) ==
    Let([r \in {Cpu_read_operand(c, mode)} |->
         Cpu_update_zero_and_negative_flags(
             Cpu_carry(r.cpu, r.ret < compare_with), U8(compare_with + 256 - r.ret))])

\* Cpu::compare.
Cpu_compare(c, mode, compare_with) ==
    Let([r \in {Cpu_read_operand(c, mode)} |->
         Cpu_update_zero_and_negative_flags(
             Cpu_carry(r.cpu, r.ret <= compare_with), U8(compare_with + 256 - r.ret))])

\* A byte read as an i8 and widened to u16 (jump as u16).
SignExtend(b) == IF b >= 128 THEN 65280 + b ELSE b

\* Cpu::branch.
Cpu_branch(c, condition) ==
    IF condition
    THEN Let([jump \in {Cpu_mem_read(c, c.reg_pc)} |->
              [jump.cpu EXCEPT !.reg_pc = U16(U16(c.reg_pc + 1) + SignExtend(jump.ret))]])
    ELSE c

\* interrupt::NMI.
NMI == [vector_addr |-> 65530, b_flag_mask |-> 32, cpu_cycles |-> 2]

\* Cpu::interrupt, setting InterruptDisable before the status is pushed.
Cpu_interrupt_DisableFirst(c, interrupt) ==
    Let([c1 \in {Cpu_stack_push_u16(c, c.reg_pc)} |->
    Let([f1 \in {FlagInsert(FlagRemove(FlagRemove(c1.status, BREAK), BREAK2),
                            INTERRUPT_DISABLE)} |->
    Let([c2 \in {Cpu_stack_push(c1, f1)} |->
    Let([c3 \in {[c2 EXCEPT !.status = FlagInsert(@, INTERRUPT_DISABLE)]} |->
    Let([c4 \in {[c3 EXCEPT !.bus = Bus_tick(@, interrupt.cpu_cycles)]} |->
    Let([r  \in {Cpu_mem_read_u16(c4, interrupt.vector_addr)} |->
         [r.cpu EXCEPT !.reg_pc = r.ret]])])])])])])

\* Cpu::interrupt.  The two comparisons with 1 are of a masked value that is
\* 0, 16 or 32.
Cpu_interrupt(c, interrupt) ==
    Let([c1   \in {Cpu_stack_push_u16(c, c.reg_pc)} |->
    Let([f1   \in {FlagSet(c1.status, BREAK, BitAnd(interrupt.b_flag_mask, 16) = 1)} |->
    Let([flag \in {FlagSet(f1, BREAK2, BitAnd(interrupt.b_flag_mask, 32) = 1)} |->
    Let([c2   \in {Cpu_stack_push(c1, flag)} |->
    Let([c3   \in {[c2 EXCEPT !.status = FlagInsert(@, INTERRUPT_DISABLE)]} |->
    Let([c4   \in {[c3 EXCEPT !.bus = Bus_tick(@, interrupt.cpu_cycles)]} |->
    Let([r    \in {Cpu_mem_read_u16(c4, interrupt.vector_addr)} |->
         [r.cpu EXCEPT !.reg_pc = r.ret]])])])])])])])

\* An unchecked u16 addition a + b (a panic on overflow in a debug build).
Cpu_add_u16(c, a, b) ==
    [cpu |-> CpuOverflowed(c, a + b > 65535), ret |-> U16(a + b)]

\* The high byte of an address plus one, in u8: ((mem_address >> 8) as u8 + 1).
Cpu_high_byte_plus_one(c, mem_address) ==
    [cpu |-> CpuOverflowed(c, mem_address \div 256 + 1 > 255),
     ret |-> U8(mem_address \div 256 + 1)]

---------------------------------------------------------------------------
(* The opcode table.  cpu/opcodes.rs (OPCODES_MAP) is not among the         *)
(* sources; the table is the 6502's, one entry for each of the 256 opcode   *)
(* values: index code + 1 gives the entry of opcode `code`.                 *)

OPCODE_LEN ==
    << 1, 2, 1, 2, 2, 2, 2, 2, 1, 2, 1, 2, 3, 3, 3, 3,
       2, 2, 1, 2, 2, 2, 2, 2, 1, 3, 1, 3, 3, 3, 3, 3,
       3, 2, 1, 2, 2, 2, 2, 2, 1, 2, 1, 2, 3, 3, 3, 3,
       2, 2, 1, 2, 2, 2, 2, 2, 1, 3, 1, 3, 3, 3, 3, 3,
       1, 2, 1, 2, 2, 2, 2, 2, 1, 2, 1, 2, 3, 3, 3, 3,
       2, 2, 1, 2, 2, 2, 2, 2, 1, 3, 1, 3, 3, 3, 3, 3,
       1, 2, 1, 2, 2, 2, 2, 2, 1, 2, 1, 2, 3, 3, 3, 3,
       2, 2, 1, 2, 2, 2, 2, 2, 1, 3, 1, 3, 3, 3, 3, 3,
       2, 2, 2, 2, 2, 2, 2, 2, 1, 2, 1, 2, 3, 3, 3, 3,
       2, 2, 1, 2, 2, 2, 2, 2, 1, 3, 1, 3, 3, 3, 3, 3,
       2, 2, 2, 2, 2, 2, 2, 2, 1, 2, 1, 2, 3, 3, 3, 3,
       2, 2, 1, 2, 2, 2, 2, 2, 1, 3, 1, 3, 3, 3, 3, 3,
       2, 2, 2, 2, 2, 2, 2, 2, 1, 2, 1, 2, 3, 3, 3, 3,
       2, 2, 1, 2, 2, 2, 2, 2, 1, 3, 1, 3, 3, 3, 3, 3,
       2, 2, 2, 2, 2, 2, 2, 2, 1, 2, 1, 2, 3, 3, 3, 3,
       2, 2, 1, 2, 2, 2, 2, 2, 1, 3, 1, 3, 3, 3, 3, 3 >>

OPCODE_CYCLES ==
    << 7, 6, 2, 8, 3, 3, 5, 5, 3, 2, 2, 2, 4, 4, 6, 6,
       2, 5, 2, 8, 4, 4, 6, 6, 2, 4, 2, 7, 4, 4, 7, 7,
       6, 6, 2, 8, 3, 3, 5, 5, 4, 2, 2, 2, 4, 4, 6, 6,
       2, 5, 2, 8, 4, 4, 6, 6, 2, 4, 2, 7, 4, 4, 7, 7,
       6, 6, 2, 8, 3, 3, 5, 5, 3, 2, 2, 2, 3, 4, 6, 6,
       2, 5, 2, 8, 4, 4, 6, 6, 2, 4, 2, 7, 4, 4, 7, 7,
       6, 6, 2, 8, 3, 3, 5, 5, 4, 2, 2, 2, 5, 4, 6, 6,
       2, 5, 2, 8, 4, 4, 6, 6, 2, 4, 2, 7, 4, 4, 7, 7,
       2, 6, 2, 6, 3, 3, 3, 3, 2, 2, 2, 3, 4, 4, 4, 4,
       2, 6, 2, 8, 4, 4, 4, 4, 2, 5, 2, 2, 4, 5, 4, 4,
       2, 6, 2, 6, 3, 3, 3, 3, 2, 2, 2, 3, 4, 4, 4, 4,
       2, 5, 2, 5, 4, 4, 4, 4, 2, 4, 2, 2, 4, 4, 4, 4,
       2, 6, 2, 8, 3, 3, 5, 5, 2, 2, 2, 2, 4, 4, 6, 6,
       2, 5, 2, 8, 4, 4, 6, 6, 2, 4, 2, 7, 4, 4, 7, 7,
       2, 6, 2, 8, 3, 3, 5, 5, 2, 2, 2, 2, 4, 4, 6, 6,
       2, 5, 2, 8, 4, 4, 6, 6, 2, 4, 2, 7, 4, 4, 7, 7 >>

\* The mode of each opcode as its position in AddressingModes.
OPCODE_MODE ==
    << 10, 8, 10, 8, 2, 2, 2, 2, 10, 1, 10, 1, 5, 5, 5, 5,
       10, 9, 10, 9, 3, 3, 3, 3, 10, 7, 10, 7, 6, 6, 6, 6,
       10, 8, 10, 8, 2, 2, 2, 2, 10, 1, 10, 1, 5, 5, 5, 5,
       10, 9, 10, 9, 3, 3, 3, 3, 10, 7, 10, 7, 6, 6, 6, 6,
       10, 8, 10, 8, 2, 2, 2, 2, 10, 1, 10, 1, 10, 5, 5, 5,
       10, 9, 10, 9, 3, 3, 3, 3, 10, 7, 10, 7, 6, 6, 6, 6,
       10, 8, 10, 8, 2, 2, 2, 2, 10, 1, 10, 1, 10, 5, 5, 5,
       10, 9, 10, 9, 3, 3, 3, 3, 10, 7, 10, 7, 6, 6, 6, 6,
       1, 8, 1, 8, 2, 2, 2, 2, 10, 1, 10, 1, 5, 5, 5, 5,
       10, 9, 10, 9, 3, 3, 4, 4, 10, 7, 10, 7, 6, 6, 7, 7,
       1, 8, 1, 8, 2, 2, 2, 2, 10, 1, 10, 1, 5, 5, 5, 5,
       10, 9, 10, 9, 3, 3, 4, 4, 10, 7, 10, 7, 6, 6, 7, 7,
       1, 8, 1, 8, 2, 2, 2, 2, 10, 1, 10, 1, 5, 5, 5, 5,
       10, 9, 10, 9, 3, 3, 3, 3, 10, 7, 10, 7, 6, 6, 6, 6,
       1, 8, 1, 8, 2, 2, 2, 2, 10, 1, 10, 1, 5, 5, 5, 5,
       10, 9, 10, 9, 3, 3, 3, 3, 10, 7, 10, 7, 6, 6, 6, 6 >>

OpLen(code) == OPCODE_LEN[code + 1]

OpCycles(code) == OPCODE_CYCLES[code + 1]

OpMode(code) == AddressingModes[OPCODE_MODE[code + 1]]

---------------------------------------------------------------------------
(* Cpu::run_with_callback: the match on the fetched opcode.                 *)

BranchOpcodes == {\hD0, \h70, \h50, \h10, \h30, \hF0, \hB0, \h90}

\* The condition each branch arm passes to Cpu::branch.
BranchCondition(code, status) ==
    CASE code = \hD0 -> ~FlagContains(status, ZERO)
      [] code = \h70 -> FlagContains(status, OVERFLOW)
      [] code = \h50 -> ~FlagContains(status, OVERFLOW)
      [] code = \h10 -> ~FlagContains(status, NEGATIV)
      [] code = \h30 -> FlagContains(status, NEGATIV)
      [] code = \hF0 -> FlagContains(status, ZERO)
      [] code = \hB0 -> FlagContains(status, CARRY)
      [] code = \h90 -> ~FlagContains(status, CARRY)

\* The arms for the flag, stack, register-transfer and no-operand opcodes.
Cpu_execute_implied(c, code) ==
    CASE code = \hAA -> Cpu_tax(c)
      [] code = \hE8 -> Cpu_inx(c)
      [] code = \hD8 -> [c EXCEPT !.status = FlagRemove(@, DECIMAL_MODE)]
      [] code = \h58 -> [c EXCEPT !.status = FlagRemove(@, INTERRUPT_DISABLE)]
      [] code = \hB8 -> [c EXCEPT !.status = FlagRemove(@, OVERFLOW)]
      [] code = \h18 -> Cpu_carry(c, FALSE)
      [] code = \h38 -> Cpu_carry(c, TRUE)
      [] code = \h78 -> [c EXCEPT !.status = FlagInsert(@, INTERRUPT_DISABLE)]
      [] code = \hF8 -> [c EXCEPT !.status = FlagInsert(@, DECIMAL_MODE)]
      [] code = \h48 -> Cpu_stack_push(c, c.reg_a)
      [] code = \h68 -> Cpu_pla(c)
      [] code = \h08 -> Cpu_php(c)
      [] code = \h28 -> Cpu_plp(c)
      [] code = \h4A -> Cpu_lsr_accumulator(c)
      [] code = \h0A -> Cpu_asl_accumulator(c)
      [] code = \h2A -> Cpu_rol_accumulator(c)
      [] code = \h6A -> Cpu_ror_accumulator(c)
      [] code = \hC8 -> Cpu_iny(c)
      [] code = \hCA -> Cpu_dex(c)
      [] code = \h88 -> Cpu_dey(c)
      [] code = \hA8 -> Cpu_update_zero_and_negative_flags([c EXCEPT !.reg_y = c.reg_a], c.reg_a)
      [] code = \hBA -> Cpu_update_zero_and_negative_flags([c EXCEPT !.reg_x = c.reg_sp], c.reg_sp)
      [] code = \h8A -> Cpu_update_zero_and_negative_flags([c EXCEPT !.reg_a = c.reg_x], c.reg_x)
      [] code = \h9A -> [c EXCEPT !.reg_sp = c.reg_x]
      [] code = \h98 -> Cpu_update_zero_and_negative_flags([c EXCEPT !.reg_a = c.reg_y], c.reg_y)
      \* NOP, SKB and the other do-nothing arms
      [] OTHER -> c

ImpliedOpcodes ==
    {\hAA, \hE8, \hD8, \h58, \hB8, \h18, \h38, \h78, \hF8, \h48, \h68, \h08, \h28,
     \h4A, \h0A, \h2A, \h6A, \hC8, \hCA, \h88, \hA8, \hBA, \h8A, \h9A, \h98,
     \hEA, \h80, \h82, \h89, \hC2, \hE2,
     \h02, \h12, \h22, \h32, \h42, \h52, \h62, \h72, \h92, \hB2, \hD2, \hF2,
     \h1A, \h3A, \h5A, \h7A, \hDA, \hFA}

\* The arms that set the program counter: JMP, JSR, RTS, RTI and the branches.
Cpu_execute_jump(c, code) ==
    CASE code = \h4C ->
           Let([mem_address \in {Cpu_mem_read_u16(c, c.reg_pc)} |->
                [mem_address.cpu EXCEPT !.reg_pc = mem_address.ret]])
      [] code = \h6C ->
           Let([mem_address \in {Cpu_mem_read_u16(c, c.reg_pc)} |->
                IF mem_address.ret % 256 = 255
                THEN Let([lo \in {Cpu_mem_read(mem_address.cpu, mem_address.ret)} |->
                     Let([hi \in {Cpu_mem_read(lo.cpu, mem_address.ret - 255)} |->
                          [hi.cpu EXCEPT !.reg_pc = hi.ret * 256 + lo.ret]])])
                ELSE Let([ref \in {Cpu_mem_read_u16(mem_address.cpu, mem_address.ret)} |->
                          [ref.cpu EXCEPT !.reg_pc = ref.ret]])])
      [] code = \h20 ->
           Let([c2 \in {Cpu_stack_push_u16(CpuOverflowed(c, c.reg_pc + 2 > 65535),
                                           U16(c.reg_pc + 2 + 65535))} |->
           Let([target_address \in {Cpu_mem_read_u16(c2, c2.reg_pc)} |->
                [target_address.cpu EXCEPT !.reg_pc = target_address.ret]])])
      [] code = \h60 ->
           Let([r \in {Cpu_stack_pop_u16(c)} |->
                [CpuOverflowed(r.cpu, r.ret + 1 > 65535) EXCEPT !.reg_pc = U16(r.ret + 1)]])
      [] code = \h40 ->
           Let([s \in {Cpu_stack_pop(c)} |->
           Let([r \in {Cpu_stack_pop_u16(
                         [s.cpu EXCEPT !.status =
                                         FlagInsert(FlagRemove(s.ret, BREAK), BREAK2)])} |->
                [r.cpu EXCEPT !.reg_pc = r.ret]])])
      [] code \in BranchOpcodes -> Cpu_branch(c, BranchCondition(code, c.status))

JumpOpcodes == {\h4C, \h6C, \h20, \h60, \h40} \cup BranchOpcodes

\* The arms of the documented opcodes that take an addressing mode.
Cpu_execute_official(c, code, mode) ==
    CASE code \in {\hA9, \hA5, \hB5, \hAD, \hBD, \hB9, \hA1, \hB1} -> Cpu_lda(c, mode)
      [] code \in {\h69, \h65, \h75, \h6D, \h7D, \h79, \h61, \h71} -> Cpu_adc(c, mode)
      [] code \in {\hE9, \hE5, \hF5, \hED, \hFD, \hF9, \hE1, \hF1} -> Cpu_sbc(c, mode)
      [] code \in {\h29, \h25, \h35, \h2D, \h3D, \h39, \h21, \h31} -> Cpu_and(c, mode)
      [] code \in {\h49, \h45, \h55, \h4D, \h5D, \h59, \h41, \h51} -> Cpu_eor(c, mode)
      [] code \in {\h09, \h05, \h15, \h0D, \h1D, \h19, \h01, \h11} -> Cpu_ora(c, mode)
      [] code \in {\h46, \h56, \h4E, \h5E} -> Cpu_lsr(c, mode).cpu
      [] code \in {\h06, \h16, \h0E, \h1E} -> Cpu_asl(c, mode).cpu
      [] code \in {\h26, \h36, \h2E, \h3E} -> Cpu_rol(c, mode).cpu
      [] code \in {\h66, \h76, \h6E, \h7E} -> Cpu_ror(c, mode).cpu
      [] code \in {\hE6, \hF6, \hEE, \hFE} -> Cpu_inc(c, mode).cpu
      [] code \in {\hC6, \hD6, \hCE, \hDE} -> Cpu_dec(c, mode).cpu
      [] code \in {\hC9, \hC5, \hD5, \hCD, \hDD, \hD9, \hC1, \hD1} -> Cpu_compare(c, mode, c.reg_a)
      [] code \in {\hC0, \hC4, \hCC} -> Cpu_compare(c, mode, c.reg_y)
      [] code \in {\hE0, \hE4, \hEC} -> Cpu_compare(c, mode, c.reg_x)
      [] code \in {\h24, \h2C} -> Cpu_bit(c, mode)
      [] code \in {\h85, \h95, \h8D, \h9D, \h99, \h81, \h91} -> Cpu_sta(c, mode)
      [] code \in {\h86, \h96, \h8E} ->
           Let([a \in {Cpu_get_operand_address(c, mode)} |->
                Cpu_mem_write(a.cpu, a.ret, a.cpu.reg_x)])
      [] code \in {\h84, \h94, \h8C} ->
           Let([a \in {Cpu_get_operand_address(c, mode)} |->
                Cpu_mem_write(a.cpu, a.ret, a.cpu.reg_y)])
      [] code \in {\hA2, \hA6, \hB6, \hAE, \hBE} -> Cpu_ldx(c, mode)
      [] code \in {\hA0, \hA4, \hB4, \hAC, \hBC} -> Cpu_ldy(c, mode)

OfficialOpcodes ==
    {\hA9, \hA5, \hB5, \hAD, \hBD, \hB9, \hA1, \hB1, \h69, \h65, \h75, \h6D, \h7D, \h79, \h61, \h71,
     \hE9, \hE5, \hF5, \hED, \hFD, \hF9, \hE1, \hF1, \h29, \h25, \h35, \h2D, \h3D, \h39, \h21, \h31,
     \h49, \h45, \h55, \h4D, \h5D, \h59, \h41, \h51, \h09, \h05, \h15, \h0D, \h1D, \h19, \h01, \h11,
     \h46, \h56, \h4E, \h5E, \h06, \h16, \h0E, \h1E, \h26, \h36, \h2E, \h3E, \h66, \h76, \h6E, \h7E,
     \hE6, \hF6, \hEE, \hFE, \hC6, \hD6, \hCE, \hDE, \hC9, \hC5, \hD5, \hCD, \hDD, \hD9, \hC1, \hD1,
     \hC0, \hC4, \hCC, \hE0, \hE4, \hEC, \h24, \h2C, \h85, \h95, \h8D, \h9D, \h99, \h81, \h91,
     \h86, \h96, \h8E, \h84, \h94, \h8C, \hA2, \hA6, \hB6, \hAE, \hBE, \hA0, \hA4, \hB4, \hAC, \hBC}

\* The arms of the undocumented opcodes, and the catch-all arm after them.
Cpu_execute_unofficial(c, code, mode) ==
    CASE code \in {\hC7, \hD7, \hCF, \hDF, \hDB, \hD3, \hC3} ->      \* DCP
           Let([r    \in {Cpu_read_operand(c, mode)} |->
           Let([data \in {U8(r.ret + 255)} |->
           Let([c1   \in {Cpu_mem_write(r.cpu, r.addr, data)} |->
           Let([c2   \in {IF data <= c1.reg_a THEN Cpu_carry(c1, TRUE) ELSE c1} |->
                Cpu_update_zero_and_negative_flags(c2, U8(c2.reg_a + 256 - data))])])])])
      [] code \in {\h27, \h37, \h2F, \h3F, \h3B, \h33, \h23} ->      \* RLA
           Let([r \in {Cpu_rol(c, mode)} |-> Cpu_and_with_reg_a(r.cpu, r.ret)])
      [] code \in {\h07, \h17, \h0F, \h1F, \h1B, \h03, \h13} ->      \* SLO
           Let([r \in {Cpu_asl(c, mode)} |-> Cpu_or_with_reg_a(r.cpu, r.ret)])
      [] code \in {\h47, \h57, \h4F, \h5F, \h5B, \h43, \h53} ->      \* SRE
           Let([r \in {Cpu_lsr(c, mode)} |-> Cpu_xor_with_reg_a(r.cpu, r.ret)])
      [] code = \hCB ->                                              \* AXS
           Let([r       \in {Cpu_read_operand(c, mode)} |->
           Let([x_and_a \in {BitAnd(r.cpu.reg_x, r.cpu.reg_a)} |->
           Let([result  \in {U8(x_and_a + 256 - r.ret)} |->
           Let([c1      \in {IF r.ret <= x_and_a THEN Cpu_carry(r.cpu, TRUE) ELSE r.cpu} |->
                [Cpu_update_zero_and_negative_flags(c1, result)
                   EXCEPT !.reg_x = result]])])])])
      [] code = \h6B ->                                              \* ARR
           Let([r      \in {Cpu_read_operand(c, mode)} |->
           Let([c1     \in {Cpu_ror_accumulator(Cpu_and_with_reg_a(r.cpu, r.ret))} |->
           Let([result \in {c1.reg_a} |->
           Let([bit_5  \in {Bit(result, 5)} |->
           Let([bit_6  \in {Bit(result, 6)} |->
           Let([c2     \in {Cpu_carry(c1, bit_6 = 1)} |->
           Let([c3     \in {[c2 EXCEPT !.status = FlagSet(@, OVERFLOW, bit_5 # bit_6)]} |->
                Cpu_update_zero_and_negative_flags(c3, result)])])])])])])])
      [] code = \hEB ->                                              \* SBC
           Let([r \in {Cpu_read_operand(c, mode)} |-> Cpu_sub_from_reg_a(r.cpu, r.ret)])
      [] code \in {\h0B, \h2B} ->                                    \* ANC
           Let([r  \in {Cpu_read_operand(c, mode)} |->
           Let([c1 \in {Cpu_and_with_reg_a(r.cpu, r.ret)} |->
                Cpu_carry(c1, FlagContains(c1.status, NEGATIV))])])
      [] code = \h4B ->                                              \* ALR
           Let([r \in {Cpu_read_operand(c, mode)} |->
                Cpu_lsr_accumulator(Cpu_and_with_reg_a(r.cpu, r.ret))])
      [] code \in {\h04, \h44, \h64, \h14, \h34, \h54, \h74, \hD4, \hF4,
                   \h0C, \h1C, \h3C, \h5C, \h7C, \hDC, \hFC} ->      \* NOP read
           Cpu_read_operand(c, mode).cpu
      [] code \in {\h67, \h77, \h6F, \h7F, \h7B, \h63, \h73} ->      \* RRA
           Let([r \in {Cpu_ror(c, mode)} |-> Cpu_add_to_reg_a(r.cpu, r.ret)])
      [] code \in {\hE7, \hF7, \hEF, \hFF, \hFB, \hE3, \hF3} ->      \* ISB
           Let([r \in {Cpu_inc(c, mode)} |-> Cpu_sub_from_reg_a(r.cpu, r.ret)])
      [] code \in {\hA7, \hB7, \hAF, \hBF, \hA3, \hB3} ->            \* LAX
           Let([r  \in {Cpu_read_operand(c, mode)} |->
           Let([c1 \in {Cpu_set_reg_a(r.cpu, r.ret)} |->
                [c1 EXCEPT !.reg_x = c1.reg_a]])])
      [] code \in {\h87, \h97, \h8F, \h83} ->                        \* SAX
           Let([a \in {Cpu_get_operand_address(c, mode)} |->
                Cpu_mem_write(a.cpu, a.ret, BitAnd(c.reg_a, c.reg_x))])
      [] code = \hAB -> Cpu_tax(Cpu_lda(c, mode))                    \* LXA
      [] code = \h8B ->                                              \* XAA
           Let([r \in {Cpu_read_operand(
                         Cpu_update_zero_and_negative_flags(
                             [c EXCEPT !.reg_a = c.reg_x], c.reg_x), mode)} |->
                Cpu_and_with_reg_a(r.cpu, r.ret)])
      [] code = \hBB ->                                              \* LAS
           Let([r    \in {Cpu_read_operand(c, mode)} |->
           Let([data \in {BitAnd(r.ret, r.cpu.reg_sp)} |->
                Cpu_update_zero_and_negative_flags(
                    [r.cpu EXCEPT !.reg_a = data, !.reg_x = data, !.reg_sp = data],
                    data)])])
      [] code = \h9B ->                                              \* TAS
           Let([c1 \in {[c EXCEPT !.reg_sp = BitAnd(c.reg_a, c.reg_x)]} |->
           Let([w  \in {Cpu_mem_read_u16(c1, c1.reg_pc)} |->
           Let([m  \in {Cpu_add_u16(w.cpu, w.ret, c1.reg_y)} |->
           Let([h  \in {Cpu_high_byte_plus_one(m.cpu, m.ret)} |->
                Cpu_mem_write(h.cpu, m.ret, BitAnd(h.ret, c1.reg_sp))])])])])
      [] code = \h93 ->                                              \* AHX (zp),Y
           Let([pos \in {Cpu_mem_read(c, c.reg_pc)} |->
           Let([w   \in {Cpu_mem_read_u16(pos.cpu, pos.ret)} |->
           Let([m   \in {Cpu_add_u16(w.cpu, w.ret, c.reg_y)} |->
                Cpu_mem_write(m.cpu, m.ret,
                              BitAnd(BitAnd(c.reg_a, c.reg_x), m.ret \div 256))])])])
      [] code = \h9F ->                                              \* AHX abs,Y
           Let([w \in {Cpu_mem_read_u16(c, c.reg_pc)} |->
           Let([m \in {Cpu_add_u16(w.cpu, w.ret, c.reg_y)} |->
                Cpu_mem_write(m.cpu, m.ret,
                              BitAnd(BitAnd(c.reg_a, c.reg_x), m.ret \div 256))])])
      [] code = \h9E ->                                              \* SHX
           Let([w \in {Cpu_mem_read_u16(c, c.reg_pc)} |->
           Let([m \in {Cpu_add_u16(w.cpu, w.ret, c.reg_y)} |->
           Let([h \in {Cpu_high_byte_plus_one(m.cpu, m.ret)} |->
                Cpu_mem_write(h.cpu, m.ret, BitAnd(c.reg_x, h.ret))])])])
      [] code = \h9C ->                                              \* SHY
           Let([w \in {Cpu_mem_read_u16(c, c.reg_pc)} |->
           Let([m \in {Cpu_add_u16(w.cpu, w.ret, c.reg_x)} |->
           Let([h \in {Cpu_high_byte_plus_one(m.cpu, m.ret)} |->
                Cpu_mem_write(h.cpu, m.ret, BitAnd(c.reg_y, h.ret))])])])
      [] OTHER -> CpuPanic(c, "not yet implemented")                 \* _ => todo!()

\* The match with the arms of the documented opcodes only.
Cpu_execute_Documented(c, code) ==
    CASE code \in ImpliedOpcodes  -> Cpu_execute_implied(c, code)
      [] code \in JumpOpcodes     -> Cpu_execute_jump(c, code)
      [] code \in OfficialOpcodes -> Cpu_execute_official(c, code, OpMode(code))
      [] OTHER                    -> CpuPanic(c, "not yet implemented")

\* The whole match, but for the halt arm (\h00 => return).
Cpu_execute(c, code) ==
    CASE code \in ImpliedOpcodes  -> Cpu_execute_implied(c, code)
      [] code \in JumpOpcodes     -> Cpu_execute_jump(c, code)
      [] code \in OfficialOpcodes -> Cpu_execute_official(c, code, OpMode(code))
      [] OTHER                    -> Cpu_execute_unofficial(c, code, OpMode(code))

\* The loop body from the opcode fetch on, advancing the bus clock before the
\* match, on the halt opcode too.
Cpu_fetch_execute_TickFirst(c) ==
    Let([f  \in {Cpu_mem_read(c, c.reg_pc)} |->
    Let([c1 \in {[f.cpu EXCEPT !.reg_pc = U16(c.reg_pc + 1),
                               !.bus = Bus_tick(@, OpCycles(f.ret))]} |->
         IF f.ret = 0
         THEN [cpu |-> c1, code |-> f.ret, ret |-> TRUE]
         ELSE Let([c2 \in {Cpu_execute(c1, f.ret)} |->
                   [cpu |-> IF c2.reg_pc = c1.reg_pc
                            THEN [c2 EXCEPT !.reg_pc = U16(@ + OpLen(f.ret) - 1)]
                            ELSE c2,
                    code |-> f.ret, ret |-> FALSE]])])])

\* One pass of the loop body from the opcode fetch on:
\*   let code = self.mem_read(self.reg_pc); self.reg_pc += 1; ... match code ...
\*   self.bus.tick(opcode.cycles); if program_counter_state == self.reg_pc ...
\* ret tells whether the pass returned from run_with_callback.
Cpu_fetch_execute(c) ==
    Let([f    \in {Cpu_mem_read(c, c.reg_pc)} |->
    Let([code \in {f.ret} |->
    Let([c1   \in {[CpuOverflowed(f.cpu, c.reg_pc + 1 > 65535)
                      EXCEPT !.reg_pc = U16(c.reg_pc + 1)]} |->
    Let([program_counter_state \in {c1.reg_pc} |->
         IF code + 1 \notin DOMAIN OPCODE_LEN
         THEN [cpu |-> CpuPanic(c1, "OpCode is not recognized"), code |-> code, ret |-> FALSE]
         ELSE IF code = 0
         THEN [cpu |-> c1, code |-> code, ret |-> TRUE]
         ELSE Let([c2 \in {Cpu_execute(c1, code)} |->
              Let([c3 \in {[c2 EXCEPT !.bus = Bus_tick(@, OpCycles(code))]} |->
              Let([c4 \in {IF program_counter_state = c3.reg_pc
                           THEN [CpuOverflowed(c3, c3.reg_pc + OpLen(code) - 1 > 65535)
                                   EXCEPT !.reg_pc = U16(c3.reg_pc + OpLen(code) - 1)]
                           ELSE c3} |->
                   [cpu |-> c4, code |-> code, ret |-> FALSE]])])])])])])])

\* The head of the loop body, reading the pending-interrupt flag without
\* taking it.
Cpu_poll_interrupt_Peek(c) ==
    Let([ret \in {c.bus.ppu.nmi_interrupt} |->
         [cpu |-> IF ret # None THEN Cpu_interrupt(c, NMI) ELSE c, ret |-> ret]])

\* The head of the loop body:
\*   if let Some(_nmi) = self.bus.poll_nmi_status() { self.interrupt(interrupt::NMI); }
\* ret is what the poll returned.
Cpu_poll_interrupt(c) ==
    Let([p  \in {Bus_poll_nmi_status(c.bus)} |->
    Let([c1 \in {[c EXCEPT !.bus = p.bus]} |->
         [cpu |-> IF p.ret # None THEN Cpu_interrupt(c1, NMI) ELSE c1, ret |-> p.ret]])])

---------------------------------------------------------------------------
\* The observations the properties are stated over.
NoObs ==
    [ op       |-> "new",    \* the last call
      arg      |-> 0,        \* its argument
      tick_ret |-> FALSE,    \* what the last Ppu::tick returned
      prev_ret |-> FALSE,    \* what the Ppu::tick before it returned
      poll_ret |-> None,     \* what the last poll_nmi_status returned
      read_ret |-> 0,        \* what the last read returned
      total    |-> 0,        \* PPU cycles passed to Ppu::tick so far
      frames   |-> 0,        \* Ppu::tick calls that returned true so far
      code     |-> 0,        \* the opcode the last loop pass fetched
      opaddr   |-> 0,        \* the address it was fetched from
      polls    |-> 0,        \* polls of the pending-interrupt flag by the loop
      fetches  |-> 0,        \* opcode fetches by the loop
      callbacks |-> 0,       \* invocations of the loop's observer callback
      raised   |-> 0,        \* scanline-241 entries with NMI generation enabled
      serviced |-> 0,        \* NMI sequences performed
      data     |-> 0,        \* the byte the last write passed
      sp       |-> 0,        \* the stack pointer before the last stack call
      calls    |-> 0,        \* bus and stack calls made so far
      writes   |-> 0,        \* Scroll and Address writes since the last Status read
      file     |-> None,     \* the cartridge file: None, or Some(its bytes)
      load_ret |-> None ]    \* what Rom::load made of it

thePpu == cpu.bus.ppu

PpuPosition(p) == p.scanline * DotsPerLine + p.cycles

---------------------------------------------------------------------------
(* SpecPpu: the calls a Bus makes on a fresh Ppu, in any order.            *)

MaxFrames == 2

TickCycles == {0, 15, 255}

CtrlValues == {0, 128}

InitPpu ==
    /\ cpu = Cpu_new(Bus_new(BlankCartridge))
    /\ run = "idle"
    /\ build \in {"release"}
    /\ obs = NoObs

PpuTick ==
    \E c \in TickCycles :
        /\ run = "idle"
        /\ obs.frames < MaxFrames
        /\ LET r == Ppu_tick(cpu.bus.ppu, c) IN
           /\ cpu' = [cpu EXCEPT !.bus.ppu = r.ppu]
           /\ obs' = [obs EXCEPT !.op = "Ppu::tick", !.arg = c,
                                 !.tick_ret = r.ret, !.prev_ret = obs.tick_ret,
                                 !.total = @ + c,
                                 !.frames = IF r.ret THEN @ + 1 ELSE @]
        /\ UNCHANGED <<run, build>>

PpuWriteCtrl ==
    \E v \in CtrlValues :
        /\ run = "idle"
        /\ cpu' = [cpu EXCEPT !.bus.ppu = Ppu_write_to_ctrl(@, v)]
        /\ obs' = [obs EXCEPT !.op = "write_to_ctrl", !.arg = v]
        /\ UNCHANGED <<run, build>>

PpuReadStatus ==
    /\ run = "idle"
    /\ LET r == Ppu_read_status(cpu.bus.ppu) IN
       /\ cpu' = [cpu EXCEPT !.bus.ppu = r.ppu]
       /\ obs' = [obs EXCEPT !.op = "read_status", !.arg = 0, !.read_ret = r.ret]
    /\ UNCHANGED <<run, build>>

NextPpu == PpuTick \/ PpuWriteCtrl \/ PpuReadStatus

SpecPpu == InitPpu /\ [][NextPpu]_vars

\* C1: from a fresh PPU, the number of Ppu::tick calls that returned
\* frame-complete always equals floor(cumulative cycles / (341 * 262)), and
\* no two consecutive ticks both report frame-complete.
C1_FrameCadence ==
    /\ obs.frames = obs.total \div CyclesPerFrame
    /\ ~(obs.tick_ret /\ obs.prev_ret)

\* A second frame has just completed.
C1_Witness ==
    /\ obs.op = "Ppu::tick"
    /\ obs.tick_ret
    /\ obs.frames = 2
    /\ obs.total >= 2 * CyclesPerFrame

\* C2: on the tick in which the scanline counter advances to 241, VBlank is
\* set, Sprite-zero-hit is cleared and the pending-interrupt flag is raised
\* iff Control's NMI bit is set; on no other tick is VBlank set or the flag
\* raised.
C2_VblankAtLine241 ==
    [][ obs'.op = "Ppu::tick" =>
          LET p == cpu.bus.ppu
              q == cpu'.bus.ppu
          IN IF p.scanline = VblankLine - 1 /\ q.scanline = VblankLine
             THEN /\ StatusIsVblank(q.status)
                  /\ BitAnd(q.status, SPRITE_ZERO_HIT) = 0
                  /\ (q.nmi_interrupt # None) <=> CtrlGenerateVblankNmi(p.ctrl)
             ELSE /\ StatusIsVblank(q.status) => StatusIsVblank(p.status)
                  /\ (q.nmi_interrupt # None) => (p.nmi_interrupt # None) ]_vars

\* The tick that reached line 241 with the NMI bit set raised the flag.
C2_Witness ==
    /\ obs.op = "Ppu::tick"
    /\ thePpu.scanline = VblankLine
    /\ thePpu.cycles < obs.arg
    /\ StatusIsVblank(thePpu.status)
    /\ thePpu.nmi_interrupt = Some(1)

\* C3: the tick in which the scanline counter reaches 262 wraps it to 0,
\* clears the pending-interrupt flag, Sprite-zero-hit and VBlank, and returns
\* true; every other tick returns false.
C3_WrapAtLine262 ==
    [][ obs'.op = "Ppu::tick" =>
          LET p == cpu.bus.ppu
              q == cpu'.bus.ppu
              c == obs'.total - obs.total
          IN IF p.scanline = LinesPerFrame - 1 /\ p.cycles + c >= DotsPerLine
             THEN /\ q.scanline = 0
                  /\ q.nmi_interrupt = None
                  /\ BitAnd(q.status, SPRITE_ZERO_HIT) = 0
                  /\ ~StatusIsVblank(q.status)
                  /\ obs'.tick_ret
             ELSE /\ ~obs'.tick_ret
                  /\ q.scanline < LinesPerFrame ]_vars

\* A wrap with VBlank still set before it: the status was not read since 241.
C3_Witness ==
    /\ obs.op = "Ppu::tick"
    /\ obs.tick_ret
    /\ thePpu.scanline = 0
    /\ thePpu.nmi_interrupt = None
    /\ ~StatusIsVblank(thePpu.status)
    /\ CtrlGenerateVblankNmi(thePpu.ctrl)

---------------------------------------------------------------------------
(* SpecBus: the calls a Cpu makes on the Bus of a fresh machine.           *)

MaxBusCycles == 28000

BusTickCycles == {0, 85}

InitBus ==
    /\ cpu = Cpu_new(Bus_new(BlankCartridge))
    /\ run = "idle"
    /\ build \in {"debug", "release"}
    /\ obs = NoObs

\* The state after a call on the bus that returned bus b: a panic ends the
\* program where it stood.
AfterBusCall(b) ==
    IF BusPanicked(b)
    THEN cpu' = cpu /\ run' = "panicked"
    ELSE cpu' = [cpu EXCEPT !.bus = b] /\ run' = run

\* One call of Bus::tick(c).
BusTickCall(c) ==
    /\ run = "idle"
    /\ LET b == Bus_tick(cpu.bus, c) IN
       /\ AfterBusCall(b)
       /\ obs' = [obs EXCEPT
                    !.op = "Bus::tick", !.arg = c,
                    !.frames = IF ~BusPanicked(b)
                                  /\ b.ppu.scanline < cpu.bus.ppu.scanline
                               THEN @ + 1 ELSE @]
    /\ UNCHANGED build

BusTick ==
    \E c \in BusTickCycles :
        /\ cpu.bus.cycles < MaxBusCycles
        /\ BusTickCall(c)

BusPollNmi ==
    /\ run = "idle"
    /\ LET r == Bus_poll_nmi_status(cpu.bus) IN
       /\ AfterBusCall(r.bus)
       /\ obs' = [obs EXCEPT !.op = "poll_nmi_status", !.arg = 0, !.poll_ret = r.ret]
    /\ UNCHANGED build

BusWriteCtrl ==
    \E v \in CtrlValues :
        /\ run = "idle"
        /\ AfterBusCall(Bus_mem_write(cpu.bus, 8192, v))
        /\ obs' = [obs EXCEPT !.op = "mem_write", !.arg = 8192]
        /\ UNCHANGED build

BusReadStatus ==
    /\ run = "idle"
    /\ LET r == Bus_mem_read(cpu.bus, 8194) IN
       /\ AfterBusCall(r.bus)
       /\ obs' = [obs EXCEPT !.op = "mem_read", !.arg = 8194, !.read_ret = r.ret]
    /\ UNCHANGED build

NextBus == BusTick \/ BusPollNmi \/ BusWriteCtrl \/ BusReadStatus

SpecBus == InitBus /\ [][NextBus]_vars

---------------------------------------------------------------------------
(* SpecTick: Bus::tick with cycle counts over the whole range of a u8.     *)

MaxTickBusCycles == 1200

AnyTickCycles == {0, 1, 7, 85, 86, 170, 255}

BusTickAny ==
    \E c \in AnyTickCycles :
        /\ cpu.bus.cycles < MaxTickBusCycles
        /\ BusTickCall(c)

NextTick == BusTickAny

SpecTick == InitBus /\ [][NextTick]_vars

\* C4: Bus::tick(c) adds c to the bus cycle counter, steps the PPU by exactly
\* 3 * c PPU cycles and invokes the frame callback once per completed frame,
\* so that the PPU position is always 3 times the bus cycle counter.
C4_BusTickTriples ==
    [][ obs'.op = "Bus::tick" =>
          /\ run' # "panicked"
          /\ cpu'.bus.cycles = cpu.bus.cycles + obs'.arg
          /\ obs'.frames * CyclesPerFrame + PpuPosition(cpu'.bus.ppu)
                = obs.frames * CyclesPerFrame + PpuPosition(cpu.bus.ppu) + 3 * obs'.arg
          /\ obs'.frames * CyclesPerFrame + PpuPosition(cpu'.bus.ppu)
                = 3 * cpu'.bus.cycles
          /\ cpu'.bus.gameloop_callback = obs'.frames ]_vars

\* C5: poll_nmi_status returns the pending-interrupt value and leaves the
\* flag cleared, changing nothing else; a poll right after a poll returns none.
C5_PollTakesFlag ==
    [][ obs'.op = "poll_nmi_status" =>
          /\ obs'.poll_ret = cpu.bus.ppu.nmi_interrupt
          /\ cpu'.bus.ppu.nmi_interrupt = None
          /\ cpu' = [cpu EXCEPT !.bus.ppu.nmi_interrupt = None]
          /\ run' = run
          /\ obs.op = "poll_nmi_status" => obs'.poll_ret = None ]_vars

\* A poll that found the flag raised and cleared it.
C5_Witness ==
    /\ obs.op = "poll_nmi_status"
    /\ obs.poll_ret = Some(1)
    /\ thePpu.nmi_interrupt = None
    /\ StatusIsVblank(thePpu.status)

---------------------------------------------------------------------------
(* The run loop (nes.rs: Cpu::new, Cpu::reset, Cpu::run), one action for    *)
(* the head of a loop pass (poll, NMI sequence, observer callback) and one  *)
(* for the rest (fetch, execute, tick, PC advance, observer callback).      *)
(* run is the position: "new", "poll", "fetch", "halted" (run returned) or  *)
(* "panicked".                                                              *)

\* The state after a Cpu method that left Cpu c: a panic ends the program
\* where it stood.
AfterCpuCall(c, position) ==
    IF BusPanicked(c.bus)
    THEN cpu' = cpu /\ run' = "panicked"
    ELSE cpu' = c /\ run' = position

\* The PPU entered scanline 241 with NMI generation enabled between p and q.
EnteredVblankWithNmi(p, q) ==
    /\ p.scanline # VblankLine
    /\ q.scanline = VblankLine
    /\ CtrlGenerateVblankNmi(q.ctrl)

CpuResetCall ==
    /\ run = "new"
    /\ AfterCpuCall(Cpu_reset(cpu), "poll")
    /\ obs' = [obs EXCEPT !.op = "reset"]
    /\ UNCHANGED build

LoopHead ==
    /\ run = "poll"
    /\ \E r \in {Cpu_poll_interrupt(cpu)} :
       /\ AfterCpuCall(r.cpu, "fetch")
       /\ obs' = IF BusPanicked(r.cpu.bus)
                 THEN [obs EXCEPT !.op = "panic"]
                 ELSE [obs EXCEPT
                         !.op        = "poll",
                         !.poll_ret  = r.ret,
                         !.polls     = @ + 1,
                         !.callbacks = @ + 1,
                         !.serviced  = IF r.ret # None THEN @ + 1 ELSE @,
                         !.raised    = IF EnteredVblankWithNmi(cpu.bus.ppu, r.cpu.bus.ppu)
                                       THEN @ + 1 ELSE @]
    /\ UNCHANGED build

LoopBody ==
    /\ run = "fetch"
    /\ \E r \in {Cpu_fetch_execute(cpu)} :
       /\ AfterCpuCall(r.cpu, IF r.ret THEN "halted" ELSE "poll")
       /\ obs' = IF BusPanicked(r.cpu.bus)
                 THEN [obs EXCEPT !.op = "panic", !.code = r.code, !.opaddr = cpu.reg_pc]
                 ELSE [obs EXCEPT
                         !.op        = "instr",
                         !.code      = r.code,
                         !.opaddr    = cpu.reg_pc,
                         !.fetches   = @ + 1,
                         !.callbacks = IF r.ret THEN @ ELSE @ + 1,
                         !.raised    = IF EnteredVblankWithNmi(cpu.bus.ppu, r.cpu.bus.ppu)
                                       THEN @ + 1 ELSE @]
    /\ UNCHANGED build

\* A 16 KiB cartridge: the program at \h8000 (mirrored at \hC000), the NMI
\* and reset vectors and the high byte of the IRQ vector, which is the byte
\* at \hFFFF.
Seg(at, bytes) == [i \in at..(at + Len(bytes) - 1) |-> bytes[i - at + 1]]

ProgramRom(program, reset, nmi, last) ==
    Cartridge(16384,
              Seg(16378, <<nmi % 256, nmi \div 256, reset % 256, reset \div 256, 0, last>>)
                @@ Seg(0, program),
              8192, "HORIZONTAL")

---------------------------------------------------------------------------
(* SpecRun: whole runs of programs that set the stack pointer and the       *)
(* InterruptDisable flag, write PPUCTRL and then spin, with an NMI handler  *)
(* that returns or halts.                                                   *)

MaxRunCycles == 30000

\*  8000: LDX #sp; TXS; LDA #ctrl; STA $2000; SEI or CLI
\*  8009: INC $0210,X; JMP $8009
\*  8010: the handler: RTI or the halt opcode
SpinProgram(sp, ctrl, flagop, handler) ==
    << \hA2, sp, \h9A, \hA9, ctrl, \h8D, \h00, \h20, flagop,
       \hFE, \h10, \h02, \h4C, \h09, \h80, \hEA, handler >>

RunRoms ==
    { ProgramRom(p, \h8000, \h8010, 0) :
        p \in { SpinProgram(\hFD, \h80, \h78, \h40),
                SpinProgram(\h01, \h80, \h58, \h40),
                SpinProgram(\h00, \h80, \h78, \h00),
                SpinProgram(\hFD, \h00, \h58, \h40) } }

InitRun ==
    /\ \E rom \in RunRoms : cpu = Cpu_new(Bus_new(rom))
    /\ run = "new"
    /\ build \in {"debug", "release"}
    /\ obs = NoObs

RunPoll == cpu.bus.cycles < MaxRunCycles /\ LoopHead

RunInstr == cpu.bus.cycles < MaxRunCycles /\ LoopBody

NextRun == CpuResetCall \/ RunPoll \/ RunInstr

SpecRun == InitRun /\ [][NextRun]_vars

\* C6: the run loop polls the pending-interrupt flag exactly once per
\* instruction boundary, before the observer callback and the opcode fetch;
\* every flag the PPU raises is serviced by one NMI sequence before the next
\* opcode is fetched (none twice, none lost to the clear at the frame wrap).
C6_NmiServicedOnce ==
    /\ run = "fetch" =>
         /\ obs.polls = obs.fetches + 1
         /\ obs.callbacks = 2 * obs.fetches + 1
         /\ thePpu.nmi_interrupt = None
         /\ obs.serviced = obs.raised
    /\ run = "poll" =>
         /\ obs.polls = obs.fetches
         /\ obs.callbacks = 2 * obs.fetches
         /\ obs.raised = obs.serviced + (IF thePpu.nmi_interrupt # None THEN 1 ELSE 0)
    /\ run = "halted" => obs.serviced = obs.raised

\* The one NMI of the first frame was serviced, and the frame has wrapped.
C6_Witness ==
    /\ run = "fetch"
    /\ obs.raised = 1
    /\ obs.serviced = 1
    /\ cpu.bus.gameloop_callback = 1
    /\ thePpu.scanline = 0

\* C7: whenever the flag is pending at the poll, whatever InterruptDisable
\* is, the NMI sequence pushes PC (high byte, then low byte) and the status
\* byte as it was before InterruptDisable is set, sets InterruptDisable,
\* advances the bus clock by 2 CPU cycles (6 PPU cycles) and loads PC from the
\* word at \hFFFA/\hFFFB; SP ends 3 lower (mod 256), A, X and Y are unchanged.
C7_NmiSequence ==
    [][ run = "poll" /\ cpu.bus.ppu.nmi_interrupt # None =>
          LET sp     == cpu.reg_sp
              ram    == cpu'.bus.cpu_vram
              pushed == {STACK + sp, STACK + U8(sp + 255), STACK + U8(sp + 254)}
          IN /\ run' = "fetch"
             /\ MemGet(ram, STACK + sp) = cpu.reg_pc \div 256
             /\ MemGet(ram, STACK + U8(sp + 255)) = cpu.reg_pc % 256
             /\ BitClear(MemGet(ram, STACK + U8(sp + 254)), BREAK + BREAK2)
                  = BitClear(cpu.status, BREAK + BREAK2)
             /\ \A i \in (DOMAIN ram \cup DOMAIN cpu.bus.cpu_vram) \ pushed :
                  MemGet(ram, i) = MemGet(cpu.bus.cpu_vram, i)
             /\ cpu'.status = BitOr(cpu.status, INTERRUPT_DISABLE)
             /\ cpu'.bus.cycles = cpu.bus.cycles + 2
             /\ PpuPosition(cpu'.bus.ppu) = (PpuPosition(cpu.bus.ppu) + 6) % CyclesPerFrame
             /\ cpu'.reg_pc = Bus_read_program_data(cpu.bus, \hFFFA).ret
                                + 256 * Bus_read_program_data(cpu.bus, \hFFFB).ret
             /\ cpu'.reg_sp = U8(sp + 253)
             /\ cpu'.reg_a = cpu.reg_a /\ cpu'.reg_x = cpu.reg_x /\ cpu'.reg_y = cpu.reg_y ]_vars

\* An NMI serviced with InterruptDisable set and the stack pointer at 0: the
\* pushes went to \h0100, \h01FF and \h01FE.
C7_Witness ==
    /\ run = "fetch"
    /\ obs.op = "poll"
    /\ obs.poll_ret = Some(1)
    /\ cpu.reg_pc = \h8010
    /\ cpu.reg_sp = \hFD
    /\ MemGet(cpu.bus.cpu_vram, \h0100) = \h80
    /\ FlagContains(MemGet(cpu.bus.cpu_vram, \h01FE), INTERRUPT_DISABLE)
    /\ cpu.bus.cycles > 27000

---------------------------------------------------------------------------
(* SpecInstr: short programs that set up the flags and registers and then   *)
(* execute one instruction: every opcode, every branch with displacements   *)
(* over the signed range, jumps, calls and returns.                         *)

MaxInstrs == 12

FlagBytes == {\h00, \hFF, \h01, \h02, \h40, \h80}

Displacements == {\h00, \h01, \h02, \h10, \h7F, \h80, \h81, \hF0, \hFE, \hFF}

\* LDA #v; PHA; PLP; then the branch
BranchPrograms ==
    { <<\hA9, v, \h48, \h28, b, d>> :
        v \in FlagBytes, b \in BranchOpcodes, d \in Displacements }

\* JMP, JMP indirect or JSR at \h8000
JumpPrograms ==
    { <<j, t[1], t[2]>> :
        j \in {\h4C, \h6C, \h20},
        t \in {<<\h01, \h80>>, <<\h00, \h81>>, <<\h10, \h02>>, <<\hFF, \h80>>} }

\* LDA #hi; PHA; LDA #lo; PHA; RTS
RtsPrograms ==
    { <<\hA9, t[2], \h48, \hA9, t[1], \h48, \h60>> :
        t \in {<<\h06, \h80>>, <<\h00, \h81>>, <<\hFF, \hFF>>} }

\* LDA #hi; PHA; LDA #lo; PHA; LDA #status; PHA; RTI
RtiPrograms ==
    { <<\hA9, t[2], \h48, \hA9, t[1], \h48, \hA9, v, \h48, \h40>> :
        t \in {<<\h0A, \h80>>, <<\h00, \h81>>}, v \in {\h00, \hFF} }

\* LDA #v; PHA; LDX #1; LDY #2; LDA #$81; PLP; then the opcode and two bytes
OpcodePrograms ==
    { <<\hA9, v, \h48, \hA2, \h01, \hA0, \h02, \hA9, \h81, \h28, code, t[1], t[2]>> :
        v \in {\h00, \hC3}, code \in Byte,
        t \in {<<\h10, \h02>>, <<\h00, \h80>>, <<\h02, \h20>>} }

TestRoms ==
    { ProgramRom(p, \h8000, \h8010, 0) :
        p \in BranchPrograms \cup JumpPrograms \cup RtsPrograms
                \cup RtiPrograms \cup OpcodePrograms }
    \cup { ProgramRom(<< >>, \hFFFF, \h8010, last) : last \in {\h00, \hEA} }

InitInstr ==
    /\ \E rom \in TestRoms : cpu = Cpu_new(Bus_new(rom))
    /\ run = "new"
    /\ build \in {"debug", "release"}
    /\ obs = NoObs

TestPoll == obs.fetches < MaxInstrs /\ LoopHead

TestInstr == obs.fetches < MaxInstrs /\ LoopBody

NextInstr == CpuResetCall \/ TestPoll \/ TestInstr

SpecInstr == InitInstr /\ [][NextInstr]_vars

\* A byte and a word of memory as the Cpu c would read them.
Peek(c, addr) == Bus_mem_read(c.bus, addr).ret

PeekWord(c, addr) == Peek(c, addr) + 256 * Peek(c, U16(addr + 1))

\* The address an instruction at opaddr names as its destination: the
\* operand word of JMP and JSR, the word the operand of JMP indirect points at
\* (read within the page), the return address on the stack, plus one for RTS,
\* and for a branch the address after the displacement byte plus the signed
\* displacement.
TargetAddress(c, code, opaddr) ==
    LET operand == PeekWord(c, U16(opaddr + 1))
        d       == Peek(c, U16(opaddr + 1))
    IN CASE code \in {\h4C, \h20} -> operand
         [] code = \h6C ->
              Peek(c, operand)
                + 256 * Peek(c, (operand \div 256) * 256 + ((operand + 1) % 256))
         [] code = \h60 ->
              U16(Peek(c, STACK + U8(c.reg_sp + 1))
                    + 256 * Peek(c, STACK + U8(c.reg_sp + 2)) + 1)
         [] code = \h40 ->
              Peek(c, STACK + U8(c.reg_sp + 2)) + 256 * Peek(c, STACK + U8(c.reg_sp + 3))
         [] code \in BranchOpcodes ->
              (opaddr + 2 + (IF d >= 128 THEN d - 256 ELSE d) + 65536) % 65536

\* C8: after a branch whose condition is true, PC is the address of the
\* displacement byte + 1 + d (mod 2^16) for every displacement d, d = 0 and
\* d = -1 included; after one whose condition is false, PC is the address of
\* the displacement byte + 1.
C8_BranchTarget ==
    [][ obs'.op = "instr" /\ obs'.code \in BranchOpcodes =>
          cpu'.reg_pc = IF BranchCondition(obs'.code, cpu.status)
                        THEN TargetAddress(cpu, obs'.code, obs'.opaddr)
                        ELSE U16(obs'.opaddr + 2) ]_vars

\* C9: after an instruction that does not redirect PC, PC is the opcode
\* address plus the instruction length; after a jump, call, return or taken
\* branch, PC is exactly the target address, whatever the target is.
C9_PcAfterInstruction ==
    [][ obs'.op = "instr" =>
          cpu'.reg_pc =
            IF /\ obs'.code \in JumpOpcodes
               /\ obs'.code \in BranchOpcodes => BranchCondition(obs'.code, cpu.status)
            THEN TargetAddress(cpu, obs'.code, obs'.opaddr)
            ELSE U16(obs'.opaddr + OpLen(obs'.code)) ]_vars

\* C10: the loop returns exactly when the fetched opcode is \h00; on that
\* pass the bus clock does not advance and PC, one past the halt byte, is the
\* only register changed; on every other pass the clock advances by the
\* opcode's cycles and the loop goes on to the next instruction boundary.
C10_HaltOnlyOnZero ==
    [][ obs'.op = "instr" =>
          /\ run' = "halted" <=> obs'.code = 0
          /\ obs'.code = 0 =>
               /\ cpu'.reg_pc = U16(obs'.opaddr + 1)
               /\ [cpu' EXCEPT !.reg_pc = 0, !.bus = 0] = [cpu EXCEPT !.reg_pc = 0, !.bus = 0]
               /\ cpu'.bus.cycles = cpu.bus.cycles
               /\ PpuPosition(cpu'.bus.ppu) = PpuPosition(cpu.bus.ppu)
               /\ cpu'.bus.gameloop_callback = cpu.bus.gameloop_callback
          /\ obs'.code # 0 =>
               /\ run' = "poll"
               /\ cpu'.bus.cycles = cpu.bus.cycles + OpCycles(obs'.code)
               /\ cpu'.bus.cycles > cpu.bus.cycles
               /\ PpuPosition(cpu'.bus.ppu)
                    = (PpuPosition(cpu.bus.ppu) + 3 * OpCycles(obs'.code)) % CyclesPerFrame ]_vars

\* A return from the loop with the registers the program had set: the seven
\* instructions of an OpcodePrograms program, then the halt byte.
C10_Witness ==
    /\ run = "halted"
    /\ obs.op = "instr"
    /\ obs.code = 0
    /\ obs.fetches = 8
    /\ cpu.reg_a = \h81
    /\ cpu.reg_x = 1
    /\ cpu.reg_y = 2
    /\ cpu.status = \hE3
    /\ cpu.bus.cycles > 0

---------------------------------------------------------------------------
(* One instruction from chosen registers: the Cpu after reset on a program  *)
(* of one instruction (opcode, operand byte, then zeroes), with A, X, Y,    *)
(* SP, the status byte and work RAM as an earlier part of a program could   *)
(* have left them, at the fetch of that instruction.                        *)

InstrCpu(code, m, a, x, y, sp, status, ram) ==
    [Cpu_reset(Cpu_new(Bus_new(ProgramRom(<<code, m>>, \h8000, \h8010, 0))))
       EXCEPT !.reg_a = a, !.reg_x = x, !.reg_y = y, !.reg_sp = sp,
              !.status = status, !.bus.cpu_vram = ram]

\* A flag of a status byte, by arithmetic on the byte.
FlagBit(status, f) == (status \div f) % 2 = 1

\* The immediate operand of the instruction at opaddr.
Operand(c, opaddr) == Peek(c, U16(opaddr + 1))

\* The 9-bit sum a + m + c as the 6502 reports it.
Sum(a, m, c) ==
    [ a  |-> (a + m + c) % 256,
      cf |-> a + m + c > 255,
      vf |-> a \div 128 = m \div 128 /\ ((a + m + c) % 256) \div 128 # a \div 128,
      zf |-> (a + m + c) % 256 = 0,
      nf |-> ((a + m + c) % 256) \div 128 = 1 ]

\* The Cpu c holds the accumulator and the four flags of the sum s.
HoldsSum(c, s) ==
    /\ c.reg_a = s.a
    /\ FlagBit(c.status, CARRY) <=> s.cf
    /\ FlagBit(c.status, OVERFLOW) <=> s.vf
    /\ FlagBit(c.status, ZERO) <=> s.zf
    /\ FlagBit(c.status, NEGATIV) <=> s.nf

---------------------------------------------------------------------------
(* SpecAdd: ADC #m from every accumulator, operand and carry-in.            *)

InitAdd ==
    /\ \E a \in Byte, m \in Byte, status \in {\h24, \hE7} :
          cpu = InstrCpu(\h69, m, a, 0, 0, STACK_RESET, status, EmptyMem)
    /\ run = "fetch"
    /\ build \in {"release"}
    /\ obs = NoObs

NextAdd == LoopBody

SpecAdd == InitAdd /\ [][NextAdd]_vars

\* C12: for all accumulator values a, operands m and carry-in c, ADC leaves
\* A = (a + m + c) mod 256, Carry = (a + m + c > 255), Overflow = (a and m
\* have the same sign bit and the result's differs), Zero = (result = 0) and
\* Negative = bit 7 of the result.
C12_Addition ==
    [][ obs'.op = "instr" /\ obs'.code = \h69 =>
          HoldsSum(cpu', Sum(cpu.reg_a, Operand(cpu, obs'.opaddr),
                             IF FlagBit(cpu.status, CARRY) THEN 1 ELSE 0)) ]_vars

\* \h50 + \h50 + 0 has given \hA0 with C = 0, V = 1, N = 1, Z = 0.
C12_Witness ==
    /\ obs.op = "instr"
    /\ obs.code = \h69
    /\ Operand(cpu, obs.opaddr) = \h50
    /\ cpu.reg_a = \hA0
    /\ cpu.status = \hE4

---------------------------------------------------------------------------
(* SpecAlu: one instruction from chosen registers.  The sweep over every    *)
(* opcode runs each with five operand bytes, four register files and two    *)
(* status bytes over a work RAM whose zero page and stack page hold zero,   *)
(* positive and negative bytes; the subtraction and comparison sweeps run   *)
(* SBC, ISB and CMP/CPX/CPY with every operand byte.                        *)

SweepOperands == {\h00, \h01, \h7F, \h80, \hFF}

\* A, X, Y and SP.
SweepRegisters ==
    { <<\h00, \h00, \h00, \hFD>>, <<\h80, \h01, \hFF, \h00>>,
      <<\hFF, \h80, \h00, \h80>>, <<\h01, \hFF, \h7F, \hFF>> }

SweepStatus == {\h24, \hE7}

\* Work RAM with cell j of pages 0 and 1 holding 37 j + 128 (mod 256): \h80
\* at \h00, zero at \h80.
SweepRam ==
    [j \in {k \in 0..511 : (k * 37 + 128) % 256 # 0} |-> (j * 37 + 128) % 256]

AluRegisters == {\h00, \h01, \h10, \h40, \h7F, \h80, \hFE, \hFF}

AluStatus == {\h24, \h25, \hE6, \hE7}

\* The zero-page cell the memory forms of the sweeps work on.
AluCell == \h10

\* SBC #m, the undocumented SBC #m, or ISB on a cell holding m - 1.
SubCpu(code, m, a, status) ==
    InstrCpu(code, IF code = \hE7 THEN AluCell ELSE m, a, \h11, \h22, STACK_RESET, status,
             IF code = \hE7 THEN MemSet(EmptyMem, AluCell, U8(m + 255)) ELSE EmptyMem)

\* CMP #m, CPX #m, CPY #m, or CMP on a cell holding m; the registers not
\* compared hold other bytes.
CmpCpu(code, m, r, status) ==
    InstrCpu(code, IF code = \hC5 THEN AluCell ELSE m,
             IF code \in {\hC9, \hC5} THEN r ELSE \h33,
             IF code = \hE0 THEN r ELSE \h11,
             IF code = \hC0 THEN r ELSE \h22,
             STACK_RESET, status,
             IF code = \hC5 THEN MemSet(EmptyMem, AluCell, m) ELSE EmptyMem)

InitAlu ==
    /\ \/ \E code \in Byte, m \in SweepOperands, r \in SweepRegisters, status \in SweepStatus :
             cpu = InstrCpu(code, m, r[1], r[2], r[3], r[4], status, SweepRam)
       \/ \E code \in {\hE9, \hEB, \hE7}, m \in Byte, a \in AluRegisters, status \in AluStatus :
             cpu = SubCpu(code, m, a, status)
       \/ \E code \in {\hC9, \hE0, \hC0, \hC5}, m \in Byte, r \in AluRegisters, status \in AluStatus :
             cpu = CmpCpu(code, m, r, status)
    /\ run = "fetch"
    /\ build \in {"debug", "release"}
    /\ obs = NoObs

NextAlu == LoopBody

SpecAlu == InitAlu /\ [][NextAlu]_vars

\* The opcodes whose instruction writes the accumulator: LDA, ADC, SBC, AND,
\* EOR, ORA, the accumulator shifts, PLA, TXA, TYA and the undocumented RLA,
\* SLO, SRE, RRA, ISB, ARR, ANC, ALR, LAX, LXA, XAA and LAS.
WritesA ==
    {\hA9, \hA5, \hB5, \hAD, \hBD, \hB9, \hA1, \hB1, \h69, \h65, \h75, \h6D, \h7D, \h79, \h61, \h71,
     \hE9, \hE5, \hF5, \hED, \hFD, \hF9, \hE1, \hF1, \h29, \h25, \h35, \h2D, \h3D, \h39, \h21, \h31,
     \h49, \h45, \h55, \h4D, \h5D, \h59, \h41, \h51, \h09, \h05, \h15, \h0D, \h1D, \h19, \h01, \h11,
     \h4A, \h0A, \h2A, \h6A, \h68, \h8A, \h98, \hEB,
     \h27, \h37, \h2F, \h3F, \h3B, \h33, \h23, \h07, \h17, \h0F, \h1F, \h1B, \h03, \h13,
     \h47, \h57, \h4F, \h5F, \h5B, \h43, \h53, \h67, \h77, \h6F, \h7F, \h7B, \h63, \h73,
     \hE7, \hF7, \hEF, \hFF, \hFB, \hE3, \hF3, \h6B, \h0B, \h2B, \h4B,
     \hA7, \hB7, \hAF, \hBF, \hA3, \hB3, \hAB, \h8B, \hBB}

\* The opcodes whose instruction writes X: LDX, TAX, TSX, INX, DEX and the
\* undocumented AXS, LAX, LXA and LAS.
WritesX ==
    {\hA2, \hA6, \hB6, \hAE, \hBE, \hAA, \hBA, \hE8, \hCA, \hCB,
     \hA7, \hB7, \hAF, \hBF, \hA3, \hB3, \hAB, \hBB}

\* The opcodes whose instruction writes Y: LDY, TAY, INY and DEY.
WritesY == {\hA0, \hA4, \hB4, \hAC, \hBC, \hA8, \hC8, \h88}

\* TXS, the transfer that writes the stack pointer.
TXS == \h9A

\* Zero and Negative of the status byte are those of the byte value.
ZeroNegativeOf(status, value) ==
    /\ FlagBit(status, ZERO) <=> value = 0
    /\ FlagBit(status, NEGATIV) <=> value \div 128 = 1

\* C11 (as amended): after every instruction that writes A, X or Y, Zero is
\* set iff the byte written is 0 and Negative iff its bit 7 is 1; TXS, which
\* writes the stack pointer, leaves the status byte as it was.
C11_ZeroNegativeAXY ==
    [][ obs'.op = "instr" =>
          /\ obs'.code \in WritesA => ZeroNegativeOf(cpu'.status, cpu'.reg_a)
          /\ obs'.code \in WritesX => ZeroNegativeOf(cpu'.status, cpu'.reg_x)
          /\ obs'.code \in WritesY => ZeroNegativeOf(cpu'.status, cpu'.reg_y)
          /\ obs'.code = TXS => cpu'.reg_sp = cpu.reg_x /\ cpu'.status = cpu.status ]_vars

\* C11 (as stated): after every load, transfer or arithmetic instruction
\* that writes a CPU register, the stack pointer included, Zero is set iff
\* the byte written is 0 and Negative iff its bit 7 is 1.
C11_ZeroNegativeEveryRegister ==
    [][ obs'.op = "instr" =>
          /\ obs'.code \in WritesA => ZeroNegativeOf(cpu'.status, cpu'.reg_a)
          /\ obs'.code \in WritesX => ZeroNegativeOf(cpu'.status, cpu'.reg_x)
          /\ obs'.code \in WritesY => ZeroNegativeOf(cpu'.status, cpu'.reg_y)
          /\ obs'.code = TXS => ZeroNegativeOf(cpu'.status, cpu'.reg_sp) ]_vars

\* LAX has loaded the negative byte at \h00 into A and X over a status byte
\* that had Zero set.
C11_Witness ==
    /\ obs.op = "instr"
    /\ obs.code = \hA7
    /\ cpu.reg_a = \h80
    /\ cpu.reg_x = \h80
    /\ cpu.status = \hE5

\* The operand byte of a subtraction: the immediate byte of SBC, or for ISB
\* on a zero-page cell the byte the cell holds after its increment.
SubOperand(before, after, code, opaddr) ==
    IF code = \hE7 THEN Peek(after, Operand(before, opaddr)) ELSE Operand(before, opaddr)

\* C13: for every operand byte m, SBC, the undocumented SBC (\hEB) and the
\* subtract step of ISB leave the A, Carry, Overflow, Zero and Negative that
\* addition gives for the operand m XOR \hFF with the same accumulator and
\* carry-in.
C13_SubtractIsAddComplement ==
    [][ obs'.op = "instr" /\ obs'.code \in {\hE9, \hEB, \hE7} =>
          HoldsSum(cpu', Sum(cpu.reg_a,
                             BitXor(SubOperand(cpu, cpu', obs'.code, obs'.opaddr), \hFF),
                             IF FlagBit(cpu.status, CARRY) THEN 1 ELSE 0)) ]_vars

\* ISB has raised its cell to \h01 and subtracted it from \h80 with Carry
\* set: \h7F with Carry and Overflow.
C13_Witness ==
    /\ obs.op = "instr"
    /\ obs.code = \hE7
    /\ Peek(cpu, AluCell) = \h01
    /\ cpu.reg_a = \h7F
    /\ cpu.status = \h65

\* The register a comparison opcode compares: A for CMP, X for CPX, Y for CPY.
Compared(c, code) ==
    CASE code \in {\hC9, \hC5} -> c.reg_a
      [] code = \hE0 -> c.reg_x
      [] code = \hC0 -> c.reg_y

\* The operand byte of a comparison: the immediate byte, or the byte of the
\* zero-page cell the operand byte names.
CmpOperand(c, code, opaddr) ==
    IF code = \hC5 THEN Peek(c, Operand(c, opaddr)) ELSE Operand(c, opaddr)

\* The status byte without Carry, Zero and Negative.
OtherFlags(status) == BitClear(status, CARRY + ZERO + NEGATIV)

\* C14: after CMP, CPX or CPY of register value r with memory operand m,
\* from every prior flag state, Carry is set iff m <= r, Zero iff m = r,
\* Negative is bit 7 of (r - m) mod 256, and the registers, the operand and
\* all other flags are as before.
C14_Compare ==
    [][ obs'.op = "instr" /\ obs'.code \in {\hC9, \hE0, \hC0, \hC5} =>
          \E r \in {Compared(cpu, obs'.code)}, m \in {CmpOperand(cpu, obs'.code, obs'.opaddr)} :
             /\ FlagBit(cpu'.status, CARRY) <=> m <= r
             /\ FlagBit(cpu'.status, ZERO) <=> m = r
             /\ FlagBit(cpu'.status, NEGATIV) <=> ((r + 256 - m) % 256) \div 128 = 1
             /\ OtherFlags(cpu'.status) = OtherFlags(cpu.status)
             /\ cpu'.reg_a = cpu.reg_a
             /\ cpu'.reg_x = cpu.reg_x
             /\ cpu'.reg_y = cpu.reg_y
             /\ cpu'.reg_sp = cpu.reg_sp
             /\ cpu'.bus.cpu_vram = cpu.bus.cpu_vram
             /\ CmpOperand(cpu', obs'.code, obs'.opaddr) = m ]_vars

\* CPX #\h10 with X = \h10 over a status byte that had Negative set: Carry
\* and Zero are set, Negative is cleared.
C14_Witness ==
    /\ obs.op = "instr"
    /\ obs.code = \hE0
    /\ cpu.reg_x = \h10
    /\ Operand(cpu, obs.opaddr) = \h10
    /\ cpu.status = \h67

---------------------------------------------------------------------------
(* SpecStack: the four stack methods of the Cpu, called from every stack    *)
(* pointer over a work RAM whose cells around and in page 1 hold bytes that *)
(* differ from page to page.                                                *)

MaxStackCalls == 2

StackBytes == {\h00, \hA5}

StackWords == {\h1234}

StackRam ==
    [j \in {k \in 224..543 : (k * 37 + (k \div 256) * 101 + 1) % 256 # 0} |->
       (j * 37 + (j \div 256) * 101 + 1) % 256]

InitStack ==
    /\ \E sp \in Byte :
          cpu = InstrCpu(\hEA, \hEA, \h11, \h22, \h33, sp, \h24, StackRam)
    /\ run = "fetch"
    /\ build \in {"debug", "release"}
    /\ obs = NoObs

\* The state after a stack method that left Cpu c and returned ret.
AfterStackCall(c, name, arg, ret) ==
    /\ AfterCpuCall(c, run)
    /\ obs' = IF BusPanicked(c.bus)
              THEN [obs EXCEPT !.op = "panic"]
              ELSE [obs EXCEPT !.op = name, !.arg = arg, !.read_ret = ret,
                               !.sp = cpu.reg_sp, !.calls = @ + 1]
    /\ UNCHANGED build

StackPush ==
    /\ run = "fetch"
    /\ obs.calls < MaxStackCalls
    /\ \E data \in StackBytes :
          AfterStackCall(Cpu_stack_push(cpu, data), "stack_push", data, 0)

StackPop ==
    /\ run = "fetch"
    /\ obs.calls < MaxStackCalls
    /\ \E r \in {Cpu_stack_pop(cpu)} :
          AfterStackCall(r.cpu, "stack_pop", 0, r.ret)

StackPushU16 ==
    /\ run = "fetch"
    /\ obs.calls < MaxStackCalls
    /\ \E data \in StackWords :
          AfterStackCall(Cpu_stack_push_u16(cpu, data), "stack_push_u16", data, 0)

StackPopU16 ==
    /\ run = "fetch"
    /\ obs.calls < MaxStackCalls
    /\ \E r \in {Cpu_stack_pop_u16(cpu)} :
          AfterStackCall(r.cpu, "stack_pop_u16", 0, r.ret)

NextStack == StackPush \/ StackPop \/ StackPushU16 \/ StackPopU16

SpecStack == InitStack /\ [][NextStack]_vars

\* The work-RAM cell of the stack page that stack pointer sp names.
StackCell(sp) == 256 + (sp % 256)

\* C15: push writes the byte at \h0100 + SP and then decrements SP mod 256;
\* pop increments SP mod 256 and then reads \h0100 + SP; a 16-bit push stores
\* the high byte first and a 16-bit pop reads the low byte first; no other
\* cell changes, and a pop straight after a push of the same width returns
\* the value pushed and restores SP.
C15_StackDiscipline ==
    [][ \E ram \in {cpu.bus.cpu_vram}, sp \in {cpu.reg_sp} :
          /\ obs'.op = "stack_push" =>
               /\ cpu'.bus.cpu_vram = MemSet(ram, StackCell(sp), obs'.arg)
               /\ cpu'.reg_sp = (sp + 255) % 256
          /\ obs'.op = "stack_pop" =>
               /\ cpu'.reg_sp = (sp + 1) % 256
               /\ obs'.read_ret = MemGet(ram, StackCell(sp + 1))
               /\ cpu'.bus.cpu_vram = ram
               /\ obs.op = "stack_push" => obs'.read_ret = obs.arg /\ cpu'.reg_sp = obs.sp
          /\ obs'.op = "stack_push_u16" =>
               /\ cpu'.bus.cpu_vram =
                     MemSet(MemSet(ram, StackCell(sp), obs'.arg \div 256),
                            StackCell(sp + 255), obs'.arg % 256)
               /\ cpu'.reg_sp = (sp + 254) % 256
          /\ obs'.op = "stack_pop_u16" =>
               /\ cpu'.reg_sp = (sp + 2) % 256
               /\ obs'.read_ret = MemGet(ram, StackCell(sp + 1))
                                    + 256 * MemGet(ram, StackCell(sp + 2))
               /\ cpu'.bus.cpu_vram = ram
               /\ obs.op = "stack_push_u16" =>
                    obs'.read_ret = obs.arg /\ cpu'.reg_sp = obs.sp ]_vars

\* \h1234 pushed at SP = \h00 (its low byte going to \h01FF) has been popped
\* again, and SP is \h00 as before the push.
C15_Witness ==
    /\ obs.op = "stack_pop_u16"
    /\ obs.calls = 2
    /\ obs.read_ret = \h1234
    /\ obs.sp = \hFE
    /\ cpu.reg_sp = \h00
    /\ MemGet(cpu.bus.cpu_vram, \h0100) = \h12
    /\ MemGet(cpu.bus.cpu_vram, \h01FF) = \h34

---------------------------------------------------------------------------
(* Reads and writes of the CPU address space through the Bus.               *)

\* The PPU registers the properties name, and the register an address of the
\* register window \h2000..\h3FFF selects.
PPUSTATUS == \h2002

OAMDATA == \h2004

PPUSCROLL == \h2005

PPUADDR == \h2006

PPUDATA == \h2007

PortOf(addr) == IF addr \in \h2000..\h3FFF THEN \h2000 + (addr % 8) ELSE addr

\* One call of Bus::mem_write(addr, data), with the address and the byte
\* drawn from the given sets; a panic shows in run.
MemWriteCall(addrs, bytes, max) ==
    /\ run = "idle"
    /\ obs.calls < max
    /\ \E addr \in addrs, data \in bytes :
          \E b \in {Bus_mem_write(cpu.bus, addr, data)} :
             /\ AfterBusCall(b)
             /\ obs' = [obs EXCEPT
                          !.op    = "mem_write",
                          !.arg   = addr,
                          !.data  = data,
                          !.calls = @ + 1,
                          !.writes = IF PortOf(addr) \in {PPUSCROLL, PPUADDR} THEN @ + 1 ELSE @]
    /\ UNCHANGED build

\* One call of Bus::mem_read(addr).
MemReadCall(addrs, max) ==
    /\ run = "idle"
    /\ obs.calls < max
    /\ \E addr \in addrs :
          \E r \in {Bus_mem_read(cpu.bus, addr)} :
             /\ AfterBusCall(r.bus)
             /\ obs' = [obs EXCEPT
                          !.op       = "mem_read",
                          !.arg      = addr,
                          !.read_ret = r.ret,
                          !.calls    = @ + 1,
                          !.writes   = IF PortOf(addr) = PPUSTATUS THEN 0 ELSE @]
    /\ UNCHANGED build

---------------------------------------------------------------------------
(* SpecPorts: reads and writes of work RAM and its mirrors, of the audio    *)
(* and controller ports, of the OAM DMA port and of the OAM address port,   *)
(* from the bus as 27394 one-cycle ticks leave it (the PPU one dot into     *)
(* scanline 241, VBlank set), with bytes in pages 0 and 7 of work RAM.      *)

MaxPortCalls == 2

RamAddrs == {\h0000, \h0800, \h1000, \h1800, \h07FF, \h1FFF}

PortAddrs == {\h4000, \h4013, \h4014, \h4015, \h4016, \h4017}

OAMADDR == \h2003

OAMDMA == \h4014

\* Bytes to write: as DMA pages, work RAM page 0, the PPU registers and the
\* first page of the cartridge.
PortBytes == {\h00, \h20, \h80}

PortsRam ==
    [j \in {k \in (0..255) \cup (1792..2047) : (k * 37 + (k \div 256) * 101 + 1) % 256 # 0} |->
       (j * 37 + (j \div 256) * 101 + 1) % 256]

PortsRom == ProgramRom(<<\hA9, \h10, \h8D, \h03, \h20, \hA9, \h07, \h8D, \h14, \h40>>,
                       \h8000, \h8010, \hFF)

InitPorts ==
    /\ build \in {"debug", "release"}
    /\ cpu = Cpu_new([Bus_new(PortsRom) EXCEPT
                         !.cpu_vram = PortsRam,
                         !.cycles = 27394,
                         !.ppu.cycles = 1,
                         !.ppu.scanline = VblankLine,
                         !.ppu.status = VBLANK_STARTED])
    /\ run = "idle"
    /\ obs = NoObs

NextPorts ==
    \/ MemWriteCall(RamAddrs \cup PortAddrs \cup {OAMADDR}, PortBytes, MaxPortCalls)
    \/ MemReadCall(RamAddrs \cup PortAddrs \cup {OAMADDR}, MaxPortCalls)

SpecPorts == InitPorts /\ [][NextPorts]_vars

\* The work-RAM addresses.
WorkRam == 0..8191

\* C16: after a write of v to a work-RAM address a, a read of every address
\* b of \h0000..\h1FFF with b mod \h800 = a mod \h800 returns v and every
\* work-RAM cell at another offset is unchanged; a read returns the cell at
\* its address mod \h800 and changes nothing.
C16_RamMirroring ==
    [][ \E ram \in {cpu.bus.cpu_vram}, a \in {obs'.arg} :
          /\ obs'.op = "mem_write" /\ a \in WorkRam =>
               /\ \A k \in 0..3 : Peek(cpu', (a % 2048) + 2048 * k) = obs'.data
               /\ \A j \in (DOMAIN ram \cup DOMAIN cpu'.bus.cpu_vram) \ {a % 2048} :
                     MemGet(cpu'.bus.cpu_vram, j) = MemGet(ram, j)
          /\ obs'.op = "mem_read" /\ a \in WorkRam =>
               /\ obs'.read_ret = MemGet(ram, a % 2048)
               /\ cpu' = cpu
               /\ obs.op = "mem_write" /\ obs.arg \in WorkRam /\ obs.arg % 2048 = a % 2048 =>
                    obs'.read_ret = obs.data ]_vars

\* \h80 written to \h0000, over the byte that was there, has been read back
\* at \h1800, and the last cell of work RAM is as it was.
C16_Witness ==
    /\ obs.op = "mem_read"
    /\ obs.arg = \h1800
    /\ obs.data = \h80
    /\ obs.read_ret = \h80
    /\ obs.calls = 2
    /\ MemGet(cpu.bus.cpu_vram, 0) = \h80
    /\ MemGet(cpu.bus.cpu_vram, 2047) = PortsRam[2047]

\* The byte that read i of an OAM DMA from page v gets on the bus of Cpu c.
\* Reads of the PPU register page act on the PPU: the first read of the
\* Status register, read 2, clears VBlank for the reads of it that follow.
DmaSource(c, v, i) ==
    IF v = \h20 /\ i % 8 = 2 /\ i > 2
    THEN StatusResetVblank(Peek(c, \h2002))
    ELSE Peek(c, v * 256 + i)

\* C19: a write of v to \h4014 stores at OAM index (starting OAM address + i)
\* mod 256 the byte that bus read i, of address v * 256 + i, returns, the
\* reads going through the address decode in ascending order; afterwards the
\* OAM address is its starting value, work RAM is as it was and neither the
\* bus cycle counter nor the PPU dot and scanline have advanced.
C19_OamDma ==
    [][ obs'.op = "mem_write" /\ obs'.arg = OAMDMA =>
          \E p \in {cpu.bus.ppu}, q \in {cpu'.bus.ppu} :
             /\ \A i \in 0..255 :
                   MemGet(q.oam_data, (p.oam_addr + i) % 256) = DmaSource(cpu, obs'.data, i)
             /\ q.oam_addr = p.oam_addr
             /\ q.cycles = p.cycles
             /\ q.scanline = p.scanline
             /\ cpu'.bus.cycles = cpu.bus.cycles
             /\ cpu'.bus.cpu_vram = cpu.bus.cpu_vram ]_vars

\* A DMA from work RAM page 0 with the OAM address at \h80: the byte of cell
\* \h00 is at OAM index \h80, the byte of cell \h7F at \hFF and the byte of
\* cell \hFF at \h7F.
C19_Witness ==
    /\ obs.op = "mem_write"
    /\ obs.arg = OAMDMA
    /\ obs.data = \h00
    /\ obs.calls = 2
    /\ cpu.bus.ppu.oam_addr = \h80
    /\ MemGet(cpu.bus.ppu.oam_data, \h80) = PortsRam[\h00]
    /\ MemGet(cpu.bus.ppu.oam_data, \hFF) = PortsRam[\h7F]
    /\ MemGet(cpu.bus.ppu.oam_data, \h7F) = PortsRam[\hFF]

\* The stubbed audio and controller ports.
StubPorts == \h4000..\h4017

\* C20: a read of a port \h4000..\h4017 returns 0 whatever was written before
\* and whatever the state; reads and writes of those ports, the write to
\* \h4014 apart, end normally and leave work RAM, the PPU and the cycle
\* counter as they were.
C20_StubPorts ==
    [][ obs'.arg \in StubPorts =>
          /\ run' # "panicked"
          /\ obs'.op = "mem_read" => obs'.read_ret = 0 /\ cpu' = cpu
          /\ obs'.op = "mem_write" /\ obs'.arg # OAMDMA => cpu' = cpu ]_vars

\* \h80 has been written to the first controller port, which changed nothing,
\* and the port has then been read as 0.
C20_Witness ==
    /\ obs.op = "mem_read"
    /\ obs.arg = \h4016
    /\ obs.read_ret = 0
    /\ obs.data = \h80
    /\ obs.calls = 2
    /\ cpu.bus.cpu_vram = PortsRam
    /\ cpu.bus.ppu.oam_addr = 0
    /\ cpu.bus.ppu.oam_data = EmptyMem

---------------------------------------------------------------------------
(* SpecRegs: reads and writes of the eight PPU registers and of one mirror  *)
(* of each, from the bus a program has left with a byte in the first name   *)
(* table and one in OAM, the VRAM and OAM addresses pointing at them, and   *)
(* the PPU one dot into scanline 241 with VBlank set.                       *)

MaxRegCalls == 2

PpuRegisters == \h2000..\h2007

\* One mirror of each register, from the first and the last window and from
\* windows between them.
SomeRegisterMirrors == {\h2008, \h3FF9, \h200A, \h2FFB, \h300C, \h3FFD, \h200E, \h3FFF}

RegBytes == {\h21, \h84}

\* The bus after the writes <<address, byte>> of a sequence, in order.
RECURSIVE BusAfterWrites(_, _)
BusAfterWrites(b, writes) ==
    IF writes = << >> THEN b
    ELSE BusAfterWrites(Bus_mem_write(b, Head(writes)[1], Head(writes)[2]), Tail(writes))

RegsSetup ==
    << <<\h2006, \h21>>, <<\h2006, \h08>>, <<\h2007, \h5A>>,
       <<\h2003, \h10>>, <<\h2004, \h77>>, <<\h2003, \h10>>,
       <<\h2006, \h21>>, <<\h2006, \h08>> >>

InitRegs ==
    /\ build \in {"debug", "release"}
    /\ cpu = Cpu_new([BusAfterWrites(Bus_new(PortsRom), RegsSetup) EXCEPT
                         !.cycles = 27394,
                         !.ppu.cycles = 1,
                         !.ppu.scanline = VblankLine,
                         !.ppu.status = VBLANK_STARTED])
    /\ run = "idle"
    /\ obs = NoObs

NextRegs ==
    \/ MemWriteCall(PpuRegisters \cup SomeRegisterMirrors, RegBytes, MaxRegCalls)
    \/ MemReadCall(PpuRegisters \cup SomeRegisterMirrors \cup {OAMDMA}, MaxRegCalls)

SpecRegs == InitRegs /\ [][NextRegs]_vars

\* The mirrors of the PPU registers.
RegisterMirrors == \h2008..\h3FFF

\* The call that gave bus b has ended as this step shows: by a panic, or
\* returning with b as the bus.
EndsAs(b) ==
    IF BusPanicked(b) THEN run' = "panicked" ELSE run' # "panicked" /\ cpu'.bus = b

\* C17: a read or a write at an address a of \h2008..\h3FFF has the result
\* and the effect on the PPU of the same access at \h2000 + (a mod 8); a
\* write to a mirror \h2000 + 8k sets the Control register.
C17_RegisterMirrors ==
    [][ obs'.arg \in RegisterMirrors =>
          \E base \in {\h2000 + (obs'.arg % 8)} :
             /\ obs'.op = "mem_write" =>
                  /\ EndsAs(Bus_mem_write(cpu.bus, base, obs'.data))
                  /\ base = \h2000 => cpu'.bus.ppu.ctrl = obs'.data
             /\ obs'.op = "mem_read" =>
                  \E r \in {Bus_mem_read(cpu.bus, base)} :
                     EndsAs(r.bus) /\ obs'.read_ret = r.ret ]_vars

\* The byte \h5A of the name table has come back from the second read of the
\* Data register, made at its mirror \h3FFF, and the VRAM address has moved on
\* twice.
C17_Witness ==
    /\ obs.op = "mem_read"
    /\ obs.arg = \h3FFF
    /\ obs.read_ret = \h5A
    /\ obs.calls = 2
    /\ AddrGet(cpu.bus.ppu) = \h210A

\* The PPU registers that can only be written, by their place in a window of
\* eight; the Status register, which can only be read, is at place 2.
WriteOnlyRegisters == {0, 1, 3, 5, 6}

\* C18: a write to the Status register (\h2002 or a mirror of it) and a read
\* of a write-only register (\h2000, \h2001, \h2003, \h2005, \h2006, \h4014 or
\* a mirror) are ignored: the call returns, the bus and the PPU are as they
\* were, and the read returns 0.
C18_IgnoredAccess ==
    [][ \E a \in {obs'.arg} :
          /\ obs'.op = "mem_write" /\ a \in \h2000..\h3FFF /\ a % 8 = 2 =>
               run' # "panicked" /\ cpu' = cpu
          /\ obs'.op = "mem_read"
               /\ (a = OAMDMA \/ (a \in \h2000..\h3FFF /\ a % 8 \in WriteOnlyRegisters)) =>
               run' # "panicked" /\ cpu' = cpu /\ obs'.read_ret = 0 ]_vars

---------------------------------------------------------------------------
(* SpecCart: reads and writes of the cartridge window \h8000..\hFFFF, with  *)
(* a cartridge of 16 KiB and one of 32 KiB of program data.                 *)

MaxCartCalls == 2

\* Offsets into the lower and the upper half of the window: the ends of each
\* half, a page boundary and the vectors.
CartOffsets == {\h0000, \h0001, \h00FF, \h0100, \h1234, \h3FFA, \h3FFC, \h3FFF}

CartAddrs == {\h8000 + k : k \in CartOffsets} \cup {\hC000 + k : k \in CartOffsets}

CartWindow == \h8000..\hFFFF

CartBytes == {\h00, \hA5}

\* Program data with a byte of its own, never 0, at each of the offsets and
\* at each of them in the second 16 KiB when there is one.
CartByte(k) == 1 + ((k * 7 + (k \div 256) * 3 + (k \div 16384) * 91) % 255)

CartData(len) ==
    [k \in {j + h : j \in CartOffsets, h \in {0, 16384}} \cap (0..(len - 1)) |-> CartByte(k)]

CartRoms == {Cartridge(len, CartData(len), 8192, "HORIZONTAL") : len \in {16384, 32768}}

InitCart ==
    /\ build \in {"debug", "release"}
    /\ \E rom \in CartRoms : cpu = Cpu_new(Bus_new(rom))
    /\ run = "idle"
    /\ obs = NoObs

NextCart ==
    \/ MemReadCall(CartAddrs, MaxCartCalls)
    \/ MemWriteCall(CartAddrs, CartBytes, MaxCartCalls)

SpecCart == InitCart /\ [][NextCart]_vars

\* C21: with 16 KiB of program data a read of \h8000 + k and a read of
\* \hC000 + k both return program_data[k], with 32 KiB a read of \h8000 + k
\* returns program_data[k]; a read changes nothing; a write to
\* \h8000..\hFFFF aborts and has changed neither program data nor any other
\* memory.
C21_CartridgeSpace ==
    [][ \E a \in {obs'.arg}, pd \in {cpu.bus.program_data} :
          /\ obs'.op = "mem_read" /\ a \in CartWindow =>
               /\ run' # "panicked"
               /\ cpu' = cpu
               /\ pd.len = 16384 =>
                    /\ obs'.read_ret = MemGet(pd.mem, (a - \h8000) % \h4000)
                    /\ Peek(cpu, \h8000 + (a % \h4000)) = obs'.read_ret
                    /\ Peek(cpu, \hC000 + (a % \h4000)) = obs'.read_ret
               /\ pd.len = 32768 => obs'.read_ret = MemGet(pd.mem, a - \h8000)
          /\ obs'.op = "mem_write" /\ a \in CartWindow =>
               /\ run' = "panicked"
               /\ cpu' = cpu
               /\ \E b \in {Bus_mem_write(cpu.bus, a, obs'.data)} :
                     b = [cpu.bus EXCEPT !.panic = b.panic] ]_vars

\* With 16 KiB of program data, the byte at offset \h1234 has been read at
\* \hD234, in the upper half of the window, after a first read.
C21_Witness ==
    /\ obs.op = "mem_read"
    /\ obs.arg = \hD234
    /\ obs.read_ret = CartByte(\h1234)
    /\ obs.calls = 2
    /\ cpu.bus.program_data.len = 16384
    /\ run = "idle"

---------------------------------------------------------------------------
(* SpecLatch: writes to the Scroll and Address registers and reads of the   *)
(* Status register, in every order, from a new bus and from the bus as the  *)
(* ticks into scanline 241 leave it (VBlank set).                           *)

MaxLatchCalls == 4

\* Bytes to write: one within the 14-bit address space as a high byte, one
\* beyond it.
LatchBytes == {\h23, \hC5}

InitLatch ==
    /\ build \in {"debug", "release"}
    /\ \/ cpu = Cpu_new(Bus_new(PortsRom))
       \/ cpu = Cpu_new([Bus_new(PortsRom) EXCEPT
                            !.cycles = 27394,
                            !.ppu.cycles = 1,
                            !.ppu.scanline = VblankLine,
                            !.ppu.status = VBLANK_STARTED])
    /\ run = "idle"
    /\ obs = NoObs

NextLatch ==
    \/ MemWriteCall({PPUSCROLL, PPUADDR}, LatchBytes, MaxLatchCalls)
    \/ MemReadCall({PPUSTATUS}, MaxLatchCalls)

SpecLatch == InitLatch /\ [][NextLatch]_vars

\* C22: a read of the Status register returns the status byte as it was
\* before the read, clears VBlank in it and leaves its other bits, and makes
\* the next Scroll or Address write a first write, changing nothing else; an
\* Address write that follows a Status read sets the high byte of the VRAM
\* address (kept within 14 bits) and leaves the low byte.
C22_StatusRead ==
    [][ \E p \in {cpu.bus.ppu}, q \in {cpu'.bus.ppu} :
          /\ obs'.op = "mem_read" /\ obs'.arg = PPUSTATUS =>
               /\ run' # "panicked"
               /\ obs'.read_ret = p.status
               /\ q.status = BitClear(p.status, VBLANK_STARTED)
               /\ cpu' = [cpu EXCEPT !.bus.ppu = [p EXCEPT !.status = q.status,
                                                           !.latch = TRUE]]
          /\ /\ obs'.op = "mem_write" /\ obs'.arg = PPUADDR
             /\ obs.op = "mem_read" /\ obs.arg = PPUSTATUS
             => /\ run' # "panicked"
                /\ q.addr = [hi |-> BitAnd(obs'.data, \h3F), lo |-> p.addr.lo] ]_vars

\* Two Address writes (\h23, then \hC5 as the low byte), a read of Status
\* with VBlank set, and a further Address write of \hC5, which became the high
\* byte \h05 over the low byte \hC5.
C22_Witness ==
    /\ obs.op = "mem_write"
    /\ obs.arg = PPUADDR
    /\ obs.data = \hC5
    /\ obs.calls = 4
    /\ obs.writes = 1
    /\ obs.read_ret = VBLANK_STARTED
    /\ cpu.bus.ppu.status = 0
    /\ cpu.bus.ppu.scroll = [scroll_x |-> 0, scroll_y |-> 0]
    /\ AddrGet(cpu.bus.ppu) = \h05C5

---------------------------------------------------------------------------
(* SpecOam: writes to the OAM address and OAM data registers and reads of   *)
(* the OAM data register, from a bus whose OAM holds bytes at its two last  *)
(* cells and at its first and whose OAM address is 1.                       *)

MaxOamCalls == 3

OamBytes == {\h00, \h5A, \hFF}

OamSetup ==
    << <<OAMADDR, \hFE>>, <<OAMDATA, \h11>>, <<OAMDATA, \h22>>, <<OAMDATA, \h33>> >>

InitOam ==
    /\ build \in {"debug", "release"}
    /\ cpu = Cpu_new(BusAfterWrites(Bus_new(PortsRom), OamSetup))
    /\ run = "idle"
    /\ obs = NoObs

NextOam ==
    \/ MemWriteCall({OAMADDR, OAMDATA}, OamBytes, MaxOamCalls)
    \/ MemReadCall({OAMDATA}, MaxOamCalls)

SpecOam == InitOam /\ [][NextOam]_vars

\* C24: a write to the OAM data register stores the byte at the OAM address
\* and then adds 1 to the OAM address mod 256, changing no other OAM cell and
\* nothing else; a read of the OAM data register returns the byte at the OAM
\* address and changes nothing.
C24_OamData ==
    [][ obs'.arg = OAMDATA =>
          \E p \in {cpu.bus.ppu}, q \in {cpu'.bus.ppu} :
             /\ run' # "panicked"
             /\ obs'.op = "mem_write" =>
                  /\ MemGet(q.oam_data, p.oam_addr) = obs'.data
                  /\ \A j \in Byte \ {p.oam_addr} :
                        MemGet(q.oam_data, j) = MemGet(p.oam_data, j)
                  /\ q.oam_addr = (p.oam_addr + 1) % 256
                  /\ cpu' = [cpu EXCEPT !.bus.ppu = [p EXCEPT !.oam_data = q.oam_data,
                                                              !.oam_addr = q.oam_addr]]
             /\ obs'.op = "mem_read" =>
                  /\ obs'.read_ret = MemGet(p.oam_data, p.oam_addr)
                  /\ cpu' = cpu ]_vars

\* The OAM address set to \hFF, \h5A written there, and the read that
\* followed returned the byte of cell 0, where the address had wrapped to.
C24_Witness ==
    /\ obs.op = "mem_read"
    /\ obs.arg = OAMDATA
    /\ obs.read_ret = \h33
    /\ obs.data = \h5A
    /\ obs.calls = 3
    /\ cpu.bus.ppu.oam_addr = 0
    /\ MemGet(cpu.bus.ppu.oam_data, \hFF) = \h5A
    /\ MemGet(cpu.bus.ppu.oam_data, \hFE) = \h11

---------------------------------------------------------------------------
(* SpecData: reads and writes of the Data register and writes of the        *)
(* Control register, from a PPU whose VRAM address is at one of the ends of *)
(* the character data, of each name table, of the unused mirror and of the  *)
(* palette, with bytes in the character data, the name tables and the       *)
(* palette, and the byte of the first name-table cell in the read latch.    *)

MaxDataCalls == 2

DataAddrs ==
    {\h0000, \h0FFF, \h1FE0, \h1FFF,
     \h2000, \h23FF, \h2400, \h27E0, \h2800, \h2BFF, \h2C00, \h2FFF,
     \h3000, \h3EFF,
     \h3F00, \h3F01, \h3F0F, \h3F10, \h3F1C, \h3F1F, \h3F20, \h3FFF}

\* Bytes to write: the first selects a step of 1 as a Control byte, the
\* second a step of 32.
DataBytes == {\h00, \hA7}

\* The byte a cell starts with: never 0, and another one a step of 1 or of 32
\* further on.
DataByte(a) == 1 + ((a * 37 + (a \div 256) * 11) % 255)

DataChr == [a \in 0..8191 |-> DataByte(a)]

DataVram == [i \in 0..2047 |-> DataByte(\h2000 + i)]

DataPalette == [i \in 0..31 |-> DataByte(\h3F00 + i)]

DataBus(addr, ctrl, mirroring) ==
    [Bus_new([Cartridge(16384, EmptyMem, 8192, mirroring) EXCEPT !.char_data.mem = DataChr])
       EXCEPT !.ppu.addr = [hi |-> addr \div 256, lo |-> addr % 256],
              !.ppu.ctrl = ctrl,
              !.ppu.vram = DataVram,
              !.ppu.palette_table = DataPalette,
              !.ppu.internal_data_buf = DataByte(\h2000)]

InitData ==
    /\ build \in {"debug", "release"}
    /\ \E addr \in DataAddrs, ctrl \in DataBytes, mirroring \in {"VERTICAL", "HORIZONTAL"} :
          cpu = Cpu_new(DataBus(addr, ctrl, mirroring))
    /\ run = "idle"
    /\ obs = NoObs

NextData ==
    \/ MemWriteCall({\h2000, PPUDATA}, DataBytes, MaxDataCalls)
    \/ MemReadCall({PPUDATA}, MaxDataCalls)

SpecData == InitData /\ [][NextData]_vars

\* The ranges of the VRAM address space.
CharSpace == \h0000..\h1FFF

NameTableSpace == \h2000..\h2FFF

PaletteSpace == \h3F00..\h3FFF

\* The physical VRAM cell of a name-table address by the standard tables:
\* in Vertical mode the first two tables, repeated; in Horizontal mode each
\* table twice.
NameTableCell(mirroring, a) ==
    IF mirroring = "VERTICAL"
    THEN (a - \h2000) % \h800
    ELSE ((a - \h2000) \div \h800) * \h400 + (a % \h400)

\* The palette entry of a palette address: four addresses name the entry
\* \h10 lower.
PaletteCell(a) == IF a \in {\h3F10, \h3F14, \h3F18, \h3F1C} THEN a - \h3F10 ELSE a - \h3F00

\* The byte at a character-data or name-table address of Ppu p.
Latched(p, a) ==
    IF a \in CharSpace THEN MemGet(p.char_data.mem, a)
    ELSE MemGet(p.vram, NameTableCell(p.mirroring, a))

\* The step Control selects.
Step(ctrl) == IF Bit(ctrl, 2) = 1 THEN 32 ELSE 1

\* C25: of the Data register accesses that return, a read at a
\* character-data or name-table address returns the byte in the read latch,
\* which is the byte at the address of the read before it when that was such
\* a read, and latches the byte at its own address; a read at a palette
\* address returns the palette byte and leaves the latch; a write stores the
\* byte in the name-table cell or palette entry addressed, changes no other
\* cell and leaves the latch.
C25_BufferedReads ==
    [][ obs'.arg = PPUDATA /\ run' # "panicked" =>
          \E p \in {cpu.bus.ppu}, q \in {cpu'.bus.ppu} :
          \E a \in {AddrGet(p)} :
             /\ obs'.op = "mem_read" /\ a \in CharSpace \cup NameTableSpace =>
                  /\ obs'.read_ret = p.internal_data_buf
                  /\ q.internal_data_buf = Latched(p, a)
                  /\ /\ obs.op = "mem_read" /\ obs.arg = PPUDATA
                     /\ a - Step(p.ctrl) \in CharSpace \cup NameTableSpace
                     => obs'.read_ret = Latched(p, a - Step(p.ctrl))
             /\ obs'.op = "mem_read" /\ a \in PaletteSpace =>
                  /\ obs'.read_ret = MemGet(p.palette_table, PaletteCell(a))
                  /\ q.internal_data_buf = p.internal_data_buf
             /\ obs'.op = "mem_read" =>
                  q = [p EXCEPT !.addr = q.addr, !.internal_data_buf = q.internal_data_buf]
             /\ obs'.op = "mem_write" =>
                  /\ q.internal_data_buf = p.internal_data_buf
                  /\ q.char_data = p.char_data
                  /\ a \in NameTableSpace =>
                       MemGet(q.vram, NameTableCell(p.mirroring, a)) = obs'.data
                  /\ \A i \in 0..(VramSize - 1) :
                        \/ (a \in NameTableSpace /\ i = NameTableCell(p.mirroring, a))
                        \/ MemGet(q.vram, i) = MemGet(p.vram, i)
                  /\ a \in PaletteSpace =>
                       MemGet(q.palette_table, PaletteCell(a)) = obs'.data
                  /\ \A i \in 0..(PaletteSize - 1) :
                        \/ (a \in PaletteSpace /\ i = PaletteCell(a))
                        \/ MemGet(q.palette_table, i) = MemGet(p.palette_table, i) ]_vars

\* Two reads from \h23FF on with a step of 1: the second, at \h2400, returned
\* the byte of \h23FF and latched the byte of \h2400, the first cell of the
\* second name table.
C25_Witness ==
    /\ obs.op = "mem_read"
    /\ obs.arg = PPUDATA
    /\ obs.calls = 2
    /\ obs.data = 0
    /\ obs.read_ret = DataByte(\h23FF)
    /\ cpu.bus.ppu.internal_data_buf = DataByte(\h2400)
    /\ cpu.bus.ppu.mirroring = "VERTICAL"
    /\ AddrGet(cpu.bus.ppu) = \h2401

\* C26: every read and every write of the Data register that returns, at
\* palette addresses and in the character data too, has advanced the VRAM
\* address by the step Control selected before it, 1 or 32, and a Data write
\* in the character data has changed nothing but the VRAM address.
C26_AddressStep ==
    [][ obs'.arg = PPUDATA /\ run' # "panicked" =>
          \E p \in {cpu.bus.ppu}, q \in {cpu'.bus.ppu} :
             /\ AddrGet(q) = AddrGet(p) + Step(p.ctrl)
             /\ q.ctrl = p.ctrl
             /\ obs'.op = "mem_write" /\ AddrGet(p) \in CharSpace =>
                  cpu' = [cpu EXCEPT !.bus.ppu.addr = q.addr] ]_vars

\* Control written with \hA7, which selects a step of 32, and then a write of
\* \hA7 to the Data register at \h1FE0, in the character data: the address is
\* \h2000 and no memory has changed.
C26_Witness ==
    /\ obs.op = "mem_write"
    /\ obs.arg = PPUDATA
    /\ obs.data = \hA7
    /\ obs.calls = 2
    /\ cpu.bus.ppu.ctrl = \hA7
    /\ AddrGet(cpu.bus.ppu) = \h2000
    /\ cpu.bus.ppu.vram = DataVram
    /\ cpu.bus.ppu.palette_table = DataPalette
    /\ cpu.bus.ppu.char_data.mem = DataChr

---------------------------------------------------------------------------
(* SpecMirror: a call of Ppu::mirror_vram_addr with any name-table address  *)
(* on a PPU in Vertical and on one in Horizontal mode.                      *)

InitMirror ==
    /\ build \in {"debug", "release"}
    /\ \E mirroring \in {"VERTICAL", "HORIZONTAL"} :
          cpu = Cpu_new(Bus_new(Cartridge(16384, EmptyMem, 8192, mirroring)))
    /\ run = "idle"
    /\ obs = NoObs

\* The one call of Ppu::mirror_vram_addr(addr), which takes &self.
MirrorVramAddrCall ==
    /\ run = "idle"
    /\ run' = "returned"
    /\ \E addr \in NameTableSpace :
          obs' = [obs EXCEPT
                    !.op       = "mirror_vram_addr",
                    !.arg      = addr,
                    !.read_ret = Ppu_mirror_vram_addr(cpu.bus.ppu, addr),
                    !.calls    = @ + 1]
    /\ UNCHANGED <<cpu, build>>

NextMirror == MirrorVramAddrCall

SpecMirror == InitMirror /\ [][NextMirror]_vars

\* The index the name-table address a resolves to on the PPU.
Resolved(a) == Ppu_mirror_vram_addr(cpu.bus.ppu, a)

\* C27: the index a name-table address a resolves to is a cell of VRAM; in
\* Vertical mode it is the index of the addresses \h800 from a and not the
\* index of the addresses \h400 from a; in Horizontal mode it is the index of
\* the same offset in the other table of a's pair (\h2000 with \h2400, \h2800
\* with \h2C00) and not the index of that offset in the tables of the other
\* pair.
C27_NametableMirroring ==
    obs.op = "mirror_vram_addr" =>
       \E a \in {obs.arg}, i \in {obs.read_ret} :
          /\ i \in 0..(VramSize - 1)
          /\ i = NameTableCell(cpu.bus.ppu.mirroring, a)
          /\ cpu.bus.ppu.mirroring = "VERTICAL" =>
               /\ \A b \in {a - \h800, a + \h800} \cap NameTableSpace : Resolved(b) = i
               /\ \A b \in {a - \h400, a + \h400} \cap NameTableSpace : Resolved(b) # i
          /\ cpu.bus.ppu.mirroring = "HORIZONTAL" =>
               \E k \in {a % \h400}, pair \in {(a - \h2000) \div \h800} :
                  /\ Resolved(\h2000 + pair * \h800 + k) = i
                  /\ Resolved(\h2400 + pair * \h800 + k) = i
                  /\ Resolved(\h2000 + (1 - pair) * \h800 + k) # i
                  /\ Resolved(\h2400 + (1 - pair) * \h800 + k) # i

\* In Horizontal mode \h2C05, in the fourth name table, has resolved to cell
\* \h405, the cell of \h2805.
C27_Witness ==
    /\ obs.op = "mirror_vram_addr"
    /\ obs.arg = \h2C05
    /\ obs.read_ret = \h405
    /\ cpu.bus.ppu.mirroring = "HORIZONTAL"

---------------------------------------------------------------------------
(* SpecPalette: writes and reads of the Data register and writes of the     *)
(* Address register, from a PPU with bytes in its whole palette and its     *)
(* VRAM address at one of the four palette mirror addresses or at one of    *)
(* the four addresses \h10 below them.                                      *)

MaxPaletteCalls == 4

PaletteBases == {\h3F00, \h3F04, \h3F08, \h3F0C}

\* The byte written to the Data register.
PaletteBytes == {\hA7}

\* The bytes written to the Address register: the high byte of the palette
\* addresses and the low bytes of the mirror addresses and of their bases.
PaletteAddrBytes == {\h3F} \cup {a % 256 : a \in PaletteBases \cup PaletteMirrors}

InitPalette ==
    /\ build \in {"debug", "release"}
    /\ \E addr \in PaletteBases \cup PaletteMirrors :
          cpu = Cpu_new([Bus_new(BlankCartridge) EXCEPT
                            !.ppu.addr = [hi |-> addr \div 256, lo |-> addr % 256],
                            !.ppu.palette_table = DataPalette])
    /\ run = "idle"
    /\ obs = NoObs

NextPalette ==
    \/ MemWriteCall({PPUDATA}, PaletteBytes, MaxPaletteCalls)
    \/ MemWriteCall({PPUADDR}, PaletteAddrBytes, MaxPaletteCalls)
    \/ MemReadCall({PPUDATA}, MaxPaletteCalls)

SpecPalette == InitPalette /\ [][NextPalette]_vars

\* The other address of the pair of a palette mirror address or base.
Partner(a) == IF a \in PaletteMirrors THEN a - \h10 ELSE a + \h10

\* C28: a Data write of v at one of \h3F10, \h3F14, \h3F18, \h3F1C or at the
\* address \h10 below it stores v in the one palette entry the two addresses
\* share, where a Data read at either address finds it, and changes no other
\* palette entry; a Data read at either address of a pair returns that entry
\* and changes none.
C28_PaletteMirrors ==
    [][ obs'.arg = PPUDATA /\ AddrGet(cpu.bus.ppu) \in PaletteBases \cup PaletteMirrors =>
          \E p \in {cpu.bus.ppu}, q \in {cpu'.bus.ppu} :
          \E a \in {AddrGet(p)} :
             /\ run' # "panicked"
             /\ obs'.op = "mem_write" =>
                  /\ \A b \in {a, Partner(a)} :
                        Ppu_read_data([q EXCEPT !.addr = [hi |-> b \div 256, lo |-> b % 256]]).ret
                           = obs'.data
                  /\ MemGet(q.palette_table, a % 16) = obs'.data
                  /\ \A i \in (0..(PaletteSize - 1)) \ {a % 16} :
                        MemGet(q.palette_table, i) = MemGet(p.palette_table, i)
             /\ obs'.op = "mem_read" =>
                  /\ obs'.read_ret = MemGet(p.palette_table, a % 16)
                  /\ q.palette_table = p.palette_table ]_vars

\* \hA7 has been read at \h3F0C after the Address register was set there, the
\* entry \hC of the palette holding the \hA7 a Data write at \h3F1C or \h3F0C
\* left, and the entry \h1C holding the byte it started with.
C28_Witness ==
    /\ obs.op = "mem_read"
    /\ obs.arg = PPUDATA
    /\ obs.read_ret = \hA7
    /\ obs.data = \h0C
    /\ obs.calls = 4
    /\ AddrGet(cpu.bus.ppu) = \h3F0D
    /\ MemGet(cpu.bus.ppu.palette_table, \h0C) = \hA7
    /\ MemGet(cpu.bus.ppu.palette_table, \h1C) = DataPalette[\h1C]
    /\ DataPalette[\h0C] # \hA7

---------------------------------------------------------------------------
(* SpecReset: one call of Cpu::reset in the middle of a run: the registers  *)
(* hold what a program left, work RAM, VRAM, OAM and the palette hold       *)
(* bytes, the PPU is one dot into scanline 241 with VBlank set, an NMI is   *)
(* pending or not, and one Address write or two have been made.  The        *)
(* cartridge has 16 KiB or 32 KiB of program data.                          *)

\* Registers A, X, Y, SP, the status byte and PC.
ResetRegisters ==
    { <<\h00, \h00, \h00, \hFD, \h24, \h0000>>,
      <<\h5A, \h01, \hFF, \h00, \hE7, \h8003>>,
      <<\hFF, \h80, \h7F, \hFF, \h00, \hFFFF>>,
      <<\h80, \hFE, \h10, \h7A, \hA5, \hC123>>,
      <<\h01, \h02, \h03, \hFC, \h25, \hFFFC>>,
      <<\h00, \hFF, \h00, \hFD, \h26, \h8000>>,
      <<\h7F, \h00, \hFF, \h01, \hE4, \h0600>>,
      <<\hA5, \h5A, \hA5, \h80, \h67, \hC456>> }

\* A 16 KiB image with the reset vector \h8123, and a 32 KiB image with the
\* reset vector \hC456 at the end of its second half and another word at the
\* end of its first.
ResetRoms ==
    { ProgramRom(<<\hEA>>, \h8123, \h8010, \hFF),
      Cartridge(32768,
                Seg(32762, <<\h10, \h80, \h56, \hC4, \h00, \hFF>>)
                  @@ Seg(16378, <<\h20, \h90, \h34, \h92, \h00, \hEE>>),
                8192, "VERTICAL") }

\* The writes made before the call, ending with a second or with a first
\* Address write.
ResetSetups ==
    { << <<\h0000, \h11>>, <<\h07FF, \h22>>, <<\h01FD, \h33>>,
         <<\h2006, \h3F>>, <<\h2006, \h00>>, <<\h2007, \h2A>>,
         <<\h2006, \h20>>, <<\h2006, \h00>>, <<\h2007, \h5A>>,
         <<\h2003, \h10>>, <<\h2004, \h77>>,
         <<\h2005, \h08>>, <<\h2005, \h09>> >> \o tail :
      tail \in { << <<\h2006, \h21>>, <<\h2006, \h08>> >>, << <<\h2006, \h21>> >> } }

InitReset ==
    /\ build \in {"debug", "release"}
    /\ \E r \in ResetRegisters, rom \in ResetRoms, setup \in ResetSetups, pending \in BOOLEAN :
          cpu = [ reg_a  |-> r[1],
                  reg_x  |-> r[2],
                  reg_y  |-> r[3],
                  reg_sp |-> r[4],
                  status |-> r[5],
                  reg_pc |-> r[6],
                  bus    |-> [BusAfterWrites(Bus_new(rom), setup) EXCEPT
                                 !.cycles = 27394,
                                 !.ppu.cycles = 1,
                                 !.ppu.scanline = VblankLine,
                                 !.ppu.status = VBLANK_STARTED,
                                 !.ppu.ctrl = GENERATE_NMI,
                                 !.ppu.nmi_interrupt = IF pending THEN Some(1) ELSE None] ]
    /\ run = "new"
    /\ obs = NoObs

NextReset == CpuResetCall

SpecReset == InitReset /\ [][NextReset]_vars

\* The little-endian word at \hFFFC and \hFFFD: the bytes at the last offsets
\* but two and but three of the window onto the program data.
ResetVector(pd) ==
    MemGet(pd.mem, \h7FFC % pd.len) + 256 * MemGet(pd.mem, \h7FFD % pd.len)

\* C29: reset returns with A, X and Y 0, the stack pointer \hFD, the status
\* byte \h24 and PC the little-endian word at \hFFFC and \hFFFD, and with the
\* bus as it was: work RAM, the memories, registers, latches and position of
\* the PPU, the pending-interrupt flag and the cycle counter.
C29_Reset ==
    [][ obs'.op = "reset" =>
          /\ run' # "panicked"
          /\ cpu' = [ reg_a  |-> 0,
                      reg_x  |-> 0,
                      reg_y  |-> 0,
                      reg_sp |-> \hFD,
                      status |-> \h24,
                      reg_pc |-> ResetVector(cpu.bus.program_data),
                      bus    |-> cpu.bus ] ]_vars

\* reset has been called with an NMI pending and a first Address write made,
\* on the 32 KiB cartridge: PC is \hC456, the stack pointer \hFD, and the
\* pending NMI, the latch and the bytes in work RAM and VRAM are still there.
C29_Witness ==
    /\ obs.op = "reset"
    /\ run = "poll"
    /\ cpu.reg_pc = \hC456
    /\ cpu.reg_sp = \hFD
    /\ cpu.status = \h24
    /\ cpu.reg_a = 0
    /\ cpu.bus.ppu.nmi_interrupt = Some(1)
    /\ cpu.bus.ppu.latch = FALSE
    /\ cpu.bus.cycles = 27394
    /\ MemGet(cpu.bus.cpu_vram, \h01FD) = \h33
    /\ MemGet(cpu.bus.ppu.vram, 0) = \h5A
    /\ MemGet(cpu.bus.ppu.palette_table, 0) = \h2A

\* The unused mirror of the name tables in the VRAM address space.
UnusedMirror == \h3000..\h3EFF

\* C30: a read or a write at a CPU address returns without aborting, the Data
\* register accesses with the VRAM address in \h3F00..\h3FFF among them,
\* unless it is a write to \h8000..\hFFFF or a Data register access with the
\* VRAM address in the unused mirror \h3000..\h3EFF.
C30_Totality ==
    [][ /\ obs'.op \in {"mem_read", "mem_write"}
        /\ ~(obs'.op = "mem_write" /\ obs'.arg \in CartWindow)
        /\ ~(PortOf(obs'.arg) = PPUDATA /\ AddrGet(cpu.bus.ppu) \in UnusedMirror)
        => run' # "panicked" ]_vars

---------------------------------------------------------------------------
(* Properties of the dispatch on the opcode byte, over SpecAlu, which      *)
(* starts the loop body on every one of the 256 opcode bytes.              *)

\* C31: every one of the 256 opcode bytes is recognized: the opcode table
\* has an entry for it and the match has an arm for it, so that the loop
\* body, started on any byte, fails neither with the unrecognized-opcode
\* message of the table lookup nor in the catch-all arm of the match.
C31_EveryOpcodeRecognized ==
    run = "fetch" =>
       Cpu_fetch_execute(cpu).cpu.bus.panic
          \notin {"OpCode is not recognized", "not yet implemented"}

\* The loop body has executed SHY (\h9C), the opcode of the last arm before
\* the catch-all arm, and returned to the head of the loop.
C31_Witness ==
    /\ run = "poll"
    /\ obs.op = "instr"
    /\ obs.code = \h9C

---------------------------------------------------------------------------
(* SpecLoad: Rom::load on cartridge files of every shape: missing, shorter  *)
(* than the header, with a good or a bad magic number, and as long as the   *)
(* header says, one byte shorter, or longer.  A file is None when it cannot *)
(* be opened, or Some of a buffer [len, mem], mem sparse like every memory. *)

NES_HEADER_SIZE == 16

NES_HEADER_CONST == <<78, 69, 83, 26>>

\* buf[from .. to - 1] as a memory of its own, as buffer[start..end].to_vec().
Slice(buf, from, to) ==
    [len |-> to - from,
     mem |-> [k \in {j - from : j \in (DOMAIN buf.mem) \cap (from..(to - 1))} |-> buf.mem[k + from]]]

\* Header::new: array_ref!(buf, 0, 4) and the indexing buf[4], buf[5] panic
\* on a buffer that has no such bytes.
Header_new(buf) ==
    IF buf.len < 4
    THEN [kind |-> "panic"]
    ELSE Let([headers \in {[i \in 1..4 |-> MemGet(buf.mem, i - 1)]} |->
         IF headers = NES_HEADER_CONST
         THEN IF buf.len < 6
              THEN [kind |-> "panic"]
              ELSE [kind   |-> "Ok",
                    header |-> [nes_header_const |-> headers,
                                program_size     |-> MemGet(buf.mem, 4) * \h4000,
                                char_size        |-> MemGet(buf.mem, 5) * \h2000]]
         ELSE [kind |-> "Err"]])

\* load_program: Ok(buffer[start..end].to_vec()); the slice panics when the
\* buffer ends before it.
load_program(buffer, header) ==
    Let([start \in {NES_HEADER_SIZE} |->
    Let([end   \in {start + header.program_size} |->
         IF end > buffer.len
         THEN [kind |-> "panic"]
         ELSE [kind |-> "Ok", data |-> Slice(buffer, start, end)]])])

\* load_char.
load_char(buffer, header) ==
    Let([start \in {NES_HEADER_SIZE + header.program_size} |->
    Let([end   \in {start + header.char_size} |->
         IF end > buffer.len
         THEN [kind |-> "panic"]
         ELSE [kind |-> "Ok", data |-> Slice(buffer, start, end)]])])

\* Rom::load, from the file load_file could or could not open.
Rom_load(file) ==
    IF file = None
    THEN [kind |-> "panic"]                          \* load_file: couldn't open file
    ELSE
    Let([rom_buffer \in {file[1]} |->
    Let([nes_header \in {Header_new(rom_buffer)} |->
         IF nes_header.kind # "Ok" THEN nes_header   \* the `?`, or the panic
         ELSE
    Let([program_data \in {load_program(rom_buffer, nes_header.header)} |->
         IF program_data.kind # "Ok" THEN program_data
         ELSE
    Let([char_data \in {load_char(rom_buffer, nes_header.header)} |->
         IF char_data.kind # "Ok" THEN char_data
         ELSE
    Let([b6 \in {MemGet(rom_buffer.mem, 6)} |->
    Let([b7 \in {MemGet(rom_buffer.mem, 7)} |->
         [kind |-> "Ok",
          rom  |-> [header           |-> nes_header.header,
                    program_data     |-> program_data.data,
                    char_data        |-> char_data.data,
                    mapper           |-> BitAnd(b7, \hF0) + (b6 \div 16),
                    screen_mirroring |-> IF BitAnd(b6, 8) # 0 THEN "FOUR_SCREEN"
                                         ELSE IF BitAnd(b6, 1) # 0 THEN "VERTICAL"
                                         ELSE "HORIZONTAL"]]])])])])])])

\* The lengths of the files: none, less than the magic number, less than
\* the header, and around the end of each region the headers below name.
LoadLengths ==
    {0, 3, 4, 5, 6, 15, 16, 17,
     16 + \h2000, 16 + \h4000 - 1, 16 + \h4000, 16 + \h4000 + \h2000 - 1, 16 + \h4000 + \h2000,
     16 + \h8000 - 1, 16 + \h8000, 16 + \h8000 + \h2000 - 1, 16 + \h8000 + \h2000,
     16 + \h8000 + \h2000 + 1}

LoadMagics == {NES_HEADER_CONST, <<78, 88, 83, 26>>}

\* Bytes 4 to 7 of the header: program banks, character banks, flags.
LoadHeaders == {<<b4, b5, b6, b7>> : b4 \in {0, 1, 2}, b5 \in {0, 1}, b6 \in {\h00, \h01, \h18}, b7 \in {\h00}}

\* The offsets of the file that hold a byte of their own after the header.
LoadMarks ==
    {16, 16 + \h2000 - 1, 16 + \h4000 - 1, 16 + \h4000, 16 + \h4000 + \h2000 - 1,
     16 + \h8000 - 1, 16 + \h8000, 16 + \h8000 + \h2000 - 1, 16 + \h8000 + \h2000}

LoadByte(k) == 1 + ((k * 7 + (k \div 256) * 3) % 255)

LoadBuffer(len, magic, h) ==
    [len |-> len,
     mem |-> [k \in {j \in (0..7) \cup LoadMarks :
                        /\ j < len
                        /\ j < 4 => magic[j + 1] # 0
                        /\ j \in 4..7 => h[j - 3] # 0} |->
                IF k < 4 THEN magic[k + 1] ELSE IF k < 8 THEN h[k - 3] ELSE LoadByte(k)]]

LoadFiles ==
    {None} \cup {Some(LoadBuffer(len, magic, h)) : len \in LoadLengths, magic \in LoadMagics, h \in LoadHeaders}

InitLoad ==
    /\ cpu = None
    /\ run = "start"
    /\ build \in {"debug", "release"}
    /\ \E file \in LoadFiles : obs = [NoObs EXCEPT !.file = file]

\* main: Rom::load(nes_file), and on Ok the Bus and the Cpu built on the Rom.
RomLoadCall ==
    /\ run = "start"
    /\ \E r \in {Rom_load(obs.file)} :
          /\ obs' = [obs EXCEPT !.op = "load", !.load_ret = r]
          /\ run' = CASE r.kind = "Ok"  -> "new"
                      [] r.kind = "Err" -> "error"
                      [] OTHER          -> "panicked"
          /\ cpu' = IF r.kind = "Ok" THEN Cpu_new(Bus_new(r.rom)) ELSE cpu
    /\ UNCHANGED build

NextLoad == RomLoadCall

SpecLoad == InitLoad /\ [][NextLoad]_vars

\* The length the header of buf asks for.
FullLength(buf) == NES_HEADER_SIZE + MemGet(buf.mem, 4) * \h4000 + MemGet(buf.mem, 5) * \h2000

GoodMagic(buf) == buf.len >= 4 /\ \A i \in 1..4 : MemGet(buf.mem, i - 1) = NES_HEADER_CONST[i]

\* C32: cartridge loading reports failure as an error value, never as a
\* crash: a buffer whose first four bytes are not 4E 45 53 1A yields an
\* error, a buffer shorter than 16 + byte[4] * 16 KiB + byte[5] * 8 KiB
\* yields an error, and a buffer with a valid magic number and full length
\* yields program size byte[4] * 0x4000 and character size byte[5] * 0x2000.
C32_LoadReportsErrors ==
    obs.op = "load" /\ obs.file # None =>
       /\ obs.load_ret.kind # "panic"
       /\ \E buf \in {obs.file[1]} :
          /\ ~GoodMagic(buf) => obs.load_ret.kind = "Err"
          /\ buf.len < FullLength(buf) => obs.load_ret.kind = "Err"
          /\ GoodMagic(buf) /\ buf.len >= FullLength(buf) =>
                /\ obs.load_ret.kind = "Ok"
                /\ obs.load_ret.rom.header.program_size = MemGet(buf.mem, 4) * \h4000
                /\ obs.load_ret.rom.header.char_size = MemGet(buf.mem, 5) * \h2000

---------------------------------------------------------------------------
(* The range of the two counters of the Ppu, over SpecPpu.                  *)

\* C33: after every Ppu::tick call, in every reachable state, the dot
\* counter is within 0..340 and the scanline counter is within 0..261.
C33_CountersInRange ==
    /\ thePpu.cycles \in 0..(DotsPerLine - 1)
    /\ thePpu.scanline \in 0..(LinesPerFrame - 1)

\* A tick of 255 cycles has carried the dot counter over the end of
\* scanline 260 into the last scanline, 261.
C33_Witness ==
    /\ obs.op = "Ppu::tick"
    /\ obs.arg = 255
    /\ thePpu.cycles < obs.arg
    /\ thePpu.scanline = LinesPerFrame - 1

---------------------------------------------------------------------------
(* The status byte an NMI pushes, over SpecRun.                             *)

\* C34: the status byte pushed on the stack during NMI servicing has Break
\* equal to bit 4 and Break2 equal to bit 5 of the NMI mask 0b00100000, that
\* is Break clear and Break2 set, and all its other bits equal to the live
\* status before InterruptDisable is set.
C34_NmiPushedStatus ==
    [][ run = "poll" /\ cpu.bus.ppu.nmi_interrupt # None /\ run' = "fetch" =>
          \E pushed \in {MemGet(cpu'.bus.cpu_vram, STACK + U8(cpu.reg_sp + 254))} :
             /\ FlagBit(pushed, BREAK) <=> FlagBit(NMI.b_flag_mask, BREAK)
             /\ FlagBit(pushed, BREAK2) <=> FlagBit(NMI.b_flag_mask, BREAK2)
             /\ ~FlagBit(pushed, BREAK)
             /\ FlagBit(pushed, BREAK2)
             /\ BitClear(pushed, BREAK + BREAK2) = BitClear(cpu.status, BREAK + BREAK2) ]_vars

---------------------------------------------------------------------------
(* The Carry flag after the undocumented opcodes that compare, over         *)
(* SpecAlu.                                                                 *)

DcpOpcodes == {\hC7, \hD7, \hCF, \hDF, \hDB, \hD3, \hC3}

\* The address the instruction at opaddr of c works on.
OperandAddress(c, code, opaddr) ==
    Cpu_get_operand_address([c EXCEPT !.reg_pc = U16(opaddr + 1)], OpMode(code)).ret

\* C35: the undocumented opcodes that reuse the compare follow its Carry
\* rule for every prior flag state: after DCP, Carry is set iff the
\* decremented memory byte is <= A and cleared otherwise; after AXS, Carry
\* is set iff the operand is <= (A AND X) and cleared otherwise.
C35_UndocumentedCompareCarry ==
    [][ /\ obs'.op = "instr" /\ obs'.code \in DcpOpcodes =>
             \E addr \in {OperandAddress(cpu, obs'.code, obs'.opaddr)} :
                addr <= RAM_MIRRORS_END =>
                   /\ Peek(cpu', addr) = U8(Peek(cpu, addr) + 255)
                   /\ FlagBit(cpu'.status, CARRY) <=> Peek(cpu', addr) <= cpu.reg_a
        /\ obs'.op = "instr" /\ obs'.code = \hCB =>
             FlagBit(cpu'.status, CARRY) <=>
                Operand(cpu, obs'.opaddr) <= BitAnd(cpu.reg_a, cpu.reg_x) ]_vars

---------------------------------------------------------------------------
(* SpecAddr: Cpu::get_operand_address in every addressing mode, with the    *)
(* operand bytes in work RAM at \h0601 and \h0602, over pages 0 and 1       *)
(* holding a different byte in every cell.                                  *)

AddrPc == \h0601

\* The operand byte: \hD2 is the cell before the one that holds \hFF.
AddrOperands == {\h00, \h10, \h7F, \h80, \hD2, \hFF}

\* The byte after it, the high byte of a 16-bit operand.
AddrHighBytes == {\h00, \h01, \hFF}

\* Work RAM with cell j of pages 0 and 1 holding 37 j + 128 (mod 256), plus
\* 3 in page 1, so that no cell of page 1 holds the byte of the cell 256
\* below it.
AddrRam ==
    [j \in {k \in 0..511 : (k * 37 + 128 + 3 * (k \div 256)) % 256 # 0} |->
        (j * 37 + 128 + 3 * (j \div 256)) % 256]

InitAddr ==
    /\ \E b \in AddrOperands, h \in AddrHighBytes, r \in SweepRegisters, status \in SweepStatus :
          cpu = [InstrCpu(\hEA, \h00, r[1], r[2], r[3], r[4], status,
                          MemSet(MemSet(AddrRam, AddrPc, b), AddrPc + 1, h))
                   EXCEPT !.reg_pc = AddrPc]
    /\ run = "idle"
    /\ build \in {"debug", "release"}
    /\ obs = NoObs

\* One call of get_operand_address, in the mode numbered m.
GetOperandAddressCall ==
    /\ run = "idle"
    /\ \E m \in DOMAIN AddressingModes :
       \E r \in {Cpu_get_operand_address(cpu, AddressingModes[m])} :
          /\ AfterCpuCall(r.cpu, "returned")
          /\ obs' = [obs EXCEPT !.op = "get_operand_address", !.arg = m, !.read_ret = r.ret,
                                !.calls = @ + 1]
    /\ UNCHANGED build

NextAddr == GetOperandAddressCall

SpecAddr == InitAddr /\ [][NextAddr]_vars

\* The address the mode names, by the arithmetic of the 6502: b is the
\* operand byte, w the 16-bit operand, cell(a) the byte at a.
EffectiveAddress(c, mode) ==
    LET b       == Peek(c, c.reg_pc)
        w       == Peek(c, c.reg_pc) + 256 * Peek(c, c.reg_pc + 1)
        cell(a) == Peek(c, a)
        p       == (b + c.reg_x) % 256
    IN CASE mode = "Immediate"  -> c.reg_pc
         [] mode = "ZeroPage"   -> b
         [] mode = "Absolute"   -> w
         [] mode = "ZeroPage_X" -> (b + c.reg_x) % 256
         [] mode = "ZeroPage_Y" -> (b + c.reg_y) % 256
         [] mode = "Absolute_X" -> (w + c.reg_x) % 65536
         [] mode = "Absolute_Y" -> (w + c.reg_y) % 65536
         [] mode = "Indirect_X" -> cell(p) + 256 * cell((p + 1) % 256)
         [] mode = "Indirect_Y" -> (cell(b) + 256 * cell((b + 1) % 256) + c.reg_y) % 65536

\* C36: the zero-page indexed address is (operand byte + X or Y) mod 256;
\* indexed-indirect reads its pointer's low byte at p = (operand byte + X)
\* mod 256 and high byte at (p + 1) mod 256; indirect-indexed reads the low
\* byte at the operand byte b and the high byte at (b + 1) mod 256, then
\* adds Y as a 16-bit addition mod 2^16; absolute indexed is (16-bit operand
\* + X or Y) mod 2^16.  No mode changes any register or flag.
C36_OperandAddresses ==
    [][ obs'.op = "get_operand_address" /\ AddressingModes[obs'.arg] # "NoneAddressing" =>
          /\ run' = "returned"
          /\ obs'.read_ret = EffectiveAddress(cpu, AddressingModes[obs'.arg])
          /\ cpu'.reg_a = cpu.reg_a
          /\ cpu'.reg_x = cpu.reg_x
          /\ cpu'.reg_y = cpu.reg_y
          /\ cpu'.reg_sp = cpu.reg_sp
          /\ cpu'.reg_pc = cpu.reg_pc
          /\ cpu'.status = cpu.status ]_vars

\* An indexed-indirect call whose pointer is the last cell of the zero page:
\* operand byte \h7F and X = \h80, the low byte read at \hFF and the high
\* byte at \h00; and the address returned is the one the two cells hold.
C36_Witness ==
    /\ run = "returned"
    /\ obs.op = "get_operand_address"
    /\ AddressingModes[obs.arg] = "Indirect_X"
    /\ Peek(cpu, cpu.reg_pc) = \h7F
    /\ cpu.reg_x = \h80
    /\ obs.read_ret = Peek(cpu, \hFF) + 256 * Peek(cpu, \h00)
    /\ obs.read_ret # Peek(cpu, \hFF) + 256 * Peek(cpu, \h0100)

---------------------------------------------------------------------------
(* SpecNmi: the run loop from an instruction boundary with an NMI pending:  *)
(* the NMI is serviced, the handler at \h8010 is one RTI, and the           *)
(* instruction at \h8000, any of the 256 opcodes, is executed after it.     *)
(* The loop starts from a Cpu in the middle of a run, with registers, flags *)
(* and stack pointer of every kind over a work RAM full of other bytes, or  *)
(* from a new Cpu that is reset first.                                      *)

MaxNmiInstrs == 2

\*  8000: the opcode and its operand
\*  8010: RTI
NmiProgram(code, m) == <<code, m, 0, 0, 0, 0, 0, 0, 0, 0, 0, 0, 0, 0, 0, 0, \h40>>

NmiOperands == {\h10}

\* Status bytes as the loop has them: Break2 set, Break clear.
NmiStatus == {\h20, \h24, \hA1, \hE7}

\* The PPU on scanline 241 with NMI generation enabled, the flag raised.
PpuInVblank(p) ==
    [p EXCEPT !.scanline = VblankLine, !.cycles = 6, !.ctrl = GENERATE_NMI,
              !.status = StatusSetVblank(@, TRUE), !.nmi_interrupt = Some(1)]

NmiCpu(code, m, r, status) ==
    [Cpu_reset(Cpu_new(Bus_new(ProgramRom(NmiProgram(code, m), \h8000, \h8010, 0))))
       EXCEPT !.reg_a = r[1], !.reg_x = r[2], !.reg_y = r[3], !.reg_sp = r[4],
              !.status = status, !.bus.cpu_vram = SweepRam,
              !.bus.cycles = 27395, !.bus.ppu = PpuInVblank(@)]

InitNmi ==
    /\ \/ /\ \E code \in Byte, m \in NmiOperands, r \in SweepRegisters, status \in NmiStatus :
                cpu = NmiCpu(code, m, r, status)
          /\ run = "poll"
       \/ /\ \E code \in {\h08, \h28} :
                cpu = Cpu_new(Bus_new(ProgramRom(NmiProgram(code, 0), \h8000, \h8010, 0)))
          /\ run = "new"
    /\ build \in {"debug", "release"}
    /\ obs = NoObs

NmiPoll == obs.fetches < MaxNmiInstrs /\ LoopHead

NmiInstr == obs.fetches < MaxNmiInstrs /\ LoopBody

NextNmi == CpuResetCall \/ NmiPoll \/ NmiInstr

SpecNmi == InitNmi /\ [][NextNmi]_vars

\* Break2 set and Break clear.
Normal(status) == FlagBit(status, BREAK2) /\ ~FlagBit(status, BREAK)

\* The byte a pull from the stack of c reads.
StackTop(c) == MemGet(c.bus.cpu_vram, STACK + U8(c.reg_sp + 1))

\* C37: at every instruction boundary of the run loop, after construction
\* or reset and after any sequence of instructions and NMI services, the
\* live status has Break2 (bit 5) set and Break (bit 4) clear; PHP and NMI
\* servicing alter only the pushed copy, and PLP and RTI set Break2 and
\* clear Break after loading the popped byte.
C37_BreakBits ==
    [][ /\ run' \in {"poll", "fetch", "halted"} => Normal(cpu'.status)
        /\ obs'.op = "instr" /\ obs'.code = \h08 =>
              /\ cpu'.status = cpu.status
              /\ StackTop(cpu') = BitOr(cpu.status, BREAK + BREAK2)
        /\ obs'.op = "poll" /\ obs'.poll_ret # None =>
              /\ BitClear(cpu'.status, INTERRUPT_DISABLE) = BitClear(cpu.status, INTERRUPT_DISABLE)
              /\ BitClear(StackTop(cpu'), BREAK + BREAK2) = BitClear(cpu.status, BREAK + BREAK2)
        /\ obs'.op = "instr" /\ obs'.code \in {\h28, \h40} =>
              cpu'.status = BitOr(BitClear(StackTop(cpu), BREAK), BREAK2) ]_vars

\* After the NMI and its RTI, PLP has pulled a byte with Break set, \h36,
\* from the stack, and the live status is \h26.
C37_Witness ==
    /\ run = "poll"
    /\ obs.op = "instr"
    /\ obs.code = \h28
    /\ obs.serviced = 1
    /\ MemGet(cpu.bus.cpu_vram, STACK + cpu.reg_sp) = \h36
    /\ cpu.status = \h26

\* The Cpu after the NMI pending in c has been serviced and the first
\* instruction of the handler executed.
AfterHandler(c) == Cpu_fetch_execute(Cpu_poll_interrupt(c).cpu)

\* C39: for every Cpu state at an instruction boundary, servicing an NMI and
\* then executing RTI, with the stack pointer at its value after the
\* service, restores PC, the stack pointer and the whole status byte,
\* InterruptDisable included, to their values before the NMI was serviced.
C39_InterruptRoundTrip ==
    run = "poll" /\ cpu.bus.ppu.nmi_interrupt # None =>
       \E r \in {AfterHandler(cpu)} :
          /\ r.code = \h40
          /\ ~BusPanicked(r.cpu.bus)
          /\ r.cpu.reg_pc = cpu.reg_pc
          /\ r.cpu.reg_sp = cpu.reg_sp
          /\ r.cpu.status = cpu.status
          /\ r.cpu.reg_a = cpu.reg_a /\ r.cpu.reg_x = cpu.reg_x /\ r.cpu.reg_y = cpu.reg_y

\* The loop has serviced an NMI taken with InterruptDisable clear and the
\* stack pointer at \h00, so that the pushes wrapped to \h01FF and \h01FE,
\* and has executed the RTI: PC, the stack pointer and a status with
\* InterruptDisable clear are back.
C39_Witness ==
    /\ run = "poll"
    /\ obs.op = "instr"
    /\ obs.code = \h40
    /\ obs.serviced = 1
    /\ cpu.reg_pc = \h8000
    /\ cpu.reg_sp = \h00
    /\ cpu.status = \hA1
    /\ MemGet(cpu.bus.cpu_vram, \h0100) = \h80
    /\ MemGet(cpu.bus.cpu_vram, \h01FF) = \h00
    /\ FlagBit(MemGet(cpu.bus.cpu_vram, \h01FE), NEGATIV)

---------------------------------------------------------------------------
(* SpecVblank: the calls of SpecBus over a whole frame and the start of    *)
(* the next, so that the scanline counter passes 241 and wraps to 0.        *)

MaxVblankCycles == 30000

BusTickFrame ==
    \E c \in BusTickCycles :
        /\ cpu.bus.cycles < MaxVblankCycles
        /\ BusTickCall(c)

NextVblank == BusTickFrame \/ BusPollNmi \/ BusWriteCtrl \/ BusReadStatus

SpecVblank == InitBus /\ [][NextVblank]_vars

VblankLines == VblankLine..(LinesPerFrame - 1)

\* C38: in every reachable state, if the VBlank status bit is set or the
\* pending-interrupt flag is raised, the scanline counter is within
\* 241..261; a Status read or an interrupt poll can only clear them
\* earlier, and a Control write that enables NMI while VBlank is already
\* set does not raise the pending-interrupt flag.
C38_VblankWindow ==
    [][ \E p \in {cpu.bus.ppu}, q \in {cpu'.bus.ppu} :
          /\ StatusIsVblank(q.status) \/ q.nmi_interrupt # None => q.scanline \in VblankLines
          /\ obs'.op \in {"mem_read", "poll_nmi_status"} =>
                /\ StatusIsVblank(q.status) => StatusIsVblank(p.status)
                /\ q.nmi_interrupt # None => p.nmi_interrupt # None
                /\ q.scanline = p.scanline
          /\ obs'.op = "mem_write" =>
                /\ q.nmi_interrupt = p.nmi_interrupt
                /\ q.status = p.status
                /\ q.scanline = p.scanline ]_vars

\* A Control write has enabled NMI generation on scanline 241 with VBlank
\* set: the flag, which the tick into the scanline did not raise and no
\* poll has taken, is not raised.
C38_Witness ==
    /\ obs.op = "mem_write"
    /\ CtrlGenerateVblankNmi(thePpu.ctrl)
    /\ StatusIsVblank(thePpu.status)
    /\ thePpu.scanline = VblankLine
    /\ thePpu.nmi_interrupt = None
    /\ obs.poll_ret = None

---------------------------------------------------------------------------
(* The name-table index on the cartridges Rom::load returns, over SpecLoad: *)
(* the files have flag bytes for Horizontal, Vertical and FourScreen        *)
(* mirroring.                                                               *)

\* C40: for every cartridge mirroring mode (Vertical, Horizontal and
\* FourScreen) and every data-port address in 0x2000..0x2FFF, the physical
\* index computed by mirror_vram_addr is less than 2048, so that every
\* name-table read and write stays inside the 2 KiB VRAM array.
C40_IndexInsideVram ==
    obs.op = "load" /\ obs.load_ret.kind = "Ok" =>
       \A addr \in NameTableSpace : Ppu_mirror_vram_addr(cpu.bus.ppu, addr) < VramSize

===========================================================================
